---- MODULE Spec2Model ----
(***************************************************************************)
(* QRAFT: QR air-gap file transfer.  Model of the receiver (receiver.ts,   *)
(* state.ts), of the sender (sender.ts, state.ts, main.ts) and of the      *)
(* data conversions they rely on (utils.ts).                               *)
(*                                                                         *)
(* The handlers mutate module-level state step by step and read it back    *)
(* through snapshots (state.getState()).  Each handler is an operator from *)
(* a state record to a state record, so that the order of the mutations    *)
(* inside one handler is kept; an action applies one whole handler to the  *)
(* current state.                                                          *)
(*                                                                         *)
(* Three specifications share the module: Spec runs the receiver,          *)
(* SenderSpec runs the sender, UtilSpec applies the pure functions to      *)
(* inputs drawn by its initial condition.                                  *)
(***************************************************************************)
EXTENDS Integers, Sequences, FiniteSets, TLC

\* ------------------------------------------------------------------ bounds
\* Largest chunk count a Handshake announces.
MaxTotal == 2
\* Largest number of single-file extractions (JSZip promises) in flight.
MaxTasks == 1
\* Largest number of deferred post-download resets (setTimeout) pending.
MaxTimers == 1
\* Largest number of file selections being zipped at once.
MaxZips == 3
\* Bytes of the largest archive the zip collaborator returns.
MaxBufferLen == 151
\* Longest list of numbers or bytes a pure function is applied to.
MaxListLen == 3
\* Largest number the pure functions are applied to.
MaxNumber == 8

\* --------------------------------------------------------------- constants
PROTOCOL_VERSION == 1
MULTI_FILE_ARCHIVE_NAME == "transfer_archive.zip"
ChecksumModulus == 65536
\* config.ts
QR_CHUNK_SIZE_BUFFER == 150
MIN_CHUNK_SIZE == 100

\* A nullable value: None is null/undefined, Some(x) is the value x.
None == <<>>
Some(x) == <<x>>
Val(o) == o[1]

\* ---------------------------------------------------------- base64 (atob)
\* A string is a sequence of one-character strings.
B64Chars ==
    << "A","B","C","D","E","F","G","H","I","J","K","L","M","N","O","P",
       "Q","R","S","T","U","V","W","X","Y","Z","a","b","c","d","e","f",
       "g","h","i","j","k","l","m","n","o","p","q","r","s","t","u","v",
       "w","x","y","z","0","1","2","3","4","5","6","7","8","9","+","/" >>

IsB64Char(c) == \E i \in 1..Len(B64Chars) : B64Chars[i] = c

B64Value(c) == (CHOOSE i \in 1..Len(B64Chars) : B64Chars[i] = c) - 1

\* Forgiving-base64: a string whose length is a multiple of four loses one
\* or two trailing "=".
StripPadding(s) ==
    IF Len(s) > 0 /\ Len(s) % 4 = 0 /\ s[Len(s)] = "="
    THEN IF s[Len(s) - 1] = "="
         THEN SubSeq(s, 1, Len(s) - 2)
         ELSE SubSeq(s, 1, Len(s) - 1)
    ELSE s

\* Groups of four sextets give three bytes; a rest of two sextets gives one
\* byte (four bits dropped), a rest of three gives two (two bits dropped).
RECURSIVE DecodeSextets(_)
DecodeSextets(x) ==
    IF Len(x) >= 4
    THEN LET n == ((x[1] * 64 + x[2]) * 64 + x[3]) * 64 + x[4]
         IN  << n \div 65536, (n \div 256) % 256, n % 256 >>
                 \o DecodeSextets(SubSeq(x, 5, Len(x)))
    ELSE IF Len(x) = 3
    THEN LET n == ((x[1] * 64 + x[2]) * 64 + x[3]) \div 4
         IN  << n \div 256, n % 256 >>
    ELSE IF Len(x) = 2
    THEN << (x[1] * 64 + x[2]) \div 16 >>
    ELSE << >>

\* window.atob: the decoded bytes, or a failure (it throws).
atob(s) ==
    LET t == StripPadding(s)
    IN  IF Len(t) % 4 = 1 \/ \E i \in 1..Len(t) : ~IsB64Char(t[i])
        THEN [ok |-> FALSE, bytes |-> << >>]
        ELSE [ok |-> TRUE,
              bytes |-> DecodeSextets([i \in 1..Len(t) |-> B64Value(t[i])])]

\* utils.base64ToArrayBuffer: an empty buffer when atob throws.
base64ToArrayBuffer(base64) ==
    LET d == atob(base64)
    IN  IF d.ok THEN d.bytes ELSE << >>

\* ------------------------------------------------------------- checksum
HexDigits ==
    << "0","1","2","3","4","5","6","7","8","9","a","b","c","d","e","f" >>

\* Number.prototype.toString(16) of a non-negative integer.
RECURSIVE toString16(_)
toString16(n) ==
    IF n < 16 THEN << HexDigits[n + 1] >>
    ELSE toString16(n \div 16) \o << HexDigits[(n % 16) + 1] >>

\* String.prototype.padStart(len, "0").
RECURSIVE padStart(_, _)
padStart(s, len) == IF Len(s) >= len THEN s ELSE padStart(<< "0" >> \o s, len)

\* Mutation of checksumRange: the sum is never reduced.
RECURSIVE checksumRange_NoModulo(_, _, _, _)
checksumRange_NoModulo(bytes, i, j, sum) ==
    IF i > j THEN sum
    ELSE IF i = j THEN sum + bytes[i]
    ELSE LET left == checksumRange_NoModulo(bytes, i, (i + j) \div 2, sum)
         IN  IF left >= 0
             THEN checksumRange_NoModulo(bytes, ((i + j) \div 2) + 1, j, left)
             ELSE left

\* The loop of calculateChecksum over the bytes i..j (1-based) with running
\* sum: the first half of the range, then the second half with the sum the
\* first half leaves.  The sum is reduced after every byte, so the test on
\* `left` is always true; it has the first half evaluated before the second
\* is entered, which keeps the evaluation shallow.
RECURSIVE checksumRange(_, _, _, _)
checksumRange(bytes, i, j, sum) ==
    IF i > j THEN sum
    ELSE IF i = j THEN (sum + bytes[i]) % ChecksumModulus
    ELSE LET left == checksumRange(bytes, i, (i + j) \div 2, sum)
         IN  IF left < ChecksumModulus
             THEN checksumRange(bytes, ((i + j) \div 2) + 1, j, left)
             ELSE left

\* The loop of calculateChecksum from index i on.
checksumLoop(bytes, i, sum) == checksumRange(bytes, i, Len(bytes), sum)

calculateChecksum(buffer) == padStart(toString16(checksumLoop(buffer, 1, 0)), 4)

\* ---------------------------------------------- the ChunkStore (a JS Map)
\* The program uses only has, get, set and clear of the Map, never its
\* iteration order: the Map is the finite function from its keys to their
\* values.
EmptyMap == << >>

MapHas(m, k) == k \in DOMAIN m

\* Map.get: the value, or the empty (falsy) value when the key is absent.
MapGet(m, k) == IF MapHas(m, k) THEN m[k] ELSE << >>

MapSet(m, k, d) == [i \in DOMAIN m \cup { k } |-> IF i = k THEN d ELSE m[i]]

\* ------------------------------------------------------------------ state
VARIABLES
    \* state.ts, receiver state
    receiverState,            \* ReceiverState
    isScanning,               \* the scanner's start() promise has resolved
    qrScanner,                \* a QrScanner instance exists
    expectedFileId,           \* nullable string
    expectedTotalChunks,      \* nullable number
    expectedArchiveName,      \* nullable string
    expectedDataSize,         \* nullable number
    expectedIsZip,
    expectedOriginalFilename, \* nullable string
    receivedChunksMap,        \* Map<number, string>
    receivedChunkCount,
    \* dom.ts, the receiver's text outputs
    receiverStatus,           \* dom.receiverStatus.textContent, see StatusText
    receiverDebug,            \* dom.receiverDebug.textContent
    \* pending callbacks
    startPending,             \* scannerInstance.start() not yet settled
    lateDecode,               \* a frame was being decoded when the scanner stopped
    tasks,                    \* verifyAndDownload calls suspended at their await
    resetTimers,              \* pending setTimeout callbacks of verifyAndDownload
    \* output of the last step
    downloaded                \* calls of utils.triggerFileDownload that succeeded

vars ==
    << receiverState, isScanning, qrScanner, expectedFileId,
       expectedTotalChunks, expectedArchiveName, expectedDataSize,
       expectedIsZip, expectedOriginalFilename, receivedChunksMap,
       receivedChunkCount, receiverStatus, receiverDebug, startPending,
       lateDecode, tasks, resetTimers, downloaded >>

VARIABLES
    \* state.ts, sender state
    filesToSend,                 \* number of selected File objects
    isSingleFileOriginal,
    originalSingleFilename,      \* nullable string
    dataToSendBuffer,            \* nullable ArrayBuffer
    base64Data,
    chunks,
    currentChunkIndex,
    totalDataChunks,
    transferFileId,
    transferTimer,               \* nullable timer id
    dataToSendChecksum,
    senderTransferPhase,         \* SenderPhase
    specificChunksToSend,
    specificChunkSendIndex,
    totalStepsInCurrentSequence,
    \* sender.ts, module level
    isCurrentSequenceManual,
    \* the sender's controls (index.html, dom.ts)
    errorCorrectionLevel,        \* dom.errorCorrectionLevelSelect.value
    chunkSizeInput,              \* parseInt(dom.chunkSizeInput.value), None is NaN
    startTransferBtnDisabled,
    fileInputDisabled,           \* with the other inputs of the sender view
    senderViewHidden,
    qrOverlayHidden,
    qrDisplayAreaHidden,
    senderPostTransferOptionsHidden,
    nextChunkBtnHidden,
    nextChunkBtnDisabled,
    senderStatusError,           \* dom.senderStatus shows "Error: ..."
    \* pending callbacks
    timers,                      \* window.setTimeout callbacks not yet run
    zipping,                     \* handleFileSelect calls suspended at their await
    \* output
    sent                         \* QR codes put into dom.qrCodeContainer since it was last cleared

svars ==
    << filesToSend, isSingleFileOriginal, originalSingleFilename,
       dataToSendBuffer, base64Data, chunks, currentChunkIndex,
       totalDataChunks, transferFileId, transferTimer, dataToSendChecksum,
       senderTransferPhase, specificChunksToSend, specificChunkSendIndex,
       totalStepsInCurrentSequence, isCurrentSequenceManual,
       errorCorrectionLevel, chunkSizeInput, startTransferBtnDisabled,
       fileInputDisabled, senderViewHidden, qrOverlayHidden,
       qrDisplayAreaHidden, senderPostTransferOptionsHidden,
       nextChunkBtnHidden, nextChunkBtnDisabled, senderStatusError, timers,
       zipping, sent >>

VARIABLES
    \* one application of a pure function
    call,                        \* the function and its arguments
    result                       \* None until the function has returned

uvars == << call, result >>

VARIABLES
    \* the optical channel from the sender's display to the receiver's camera
    channel                      \* synced: the Handshake of the sequence was taken in waiting_handshake; lost: packets shown but not taken

\* The current state as one record; `downloaded` starts empty in every step.
St ==
    [ receiverState            |-> receiverState,
      isScanning               |-> isScanning,
      qrScanner                |-> qrScanner,
      expectedFileId           |-> expectedFileId,
      expectedTotalChunks      |-> expectedTotalChunks,
      expectedArchiveName      |-> expectedArchiveName,
      expectedDataSize         |-> expectedDataSize,
      expectedIsZip            |-> expectedIsZip,
      expectedOriginalFilename |-> expectedOriginalFilename,
      receivedChunksMap        |-> receivedChunksMap,
      receivedChunkCount       |-> receivedChunkCount,
      receiverStatus           |-> receiverStatus,
      receiverDebug            |-> receiverDebug,
      startPending             |-> startPending,
      lateDecode               |-> lateDecode,
      tasks                    |-> tasks,
      resetTimers              |-> resetTimers,
      downloaded               |-> << >> ]

\* The receiver's variables after a step whose result is the record r.
ReceiverAssign(r) ==
    /\ receiverState' = r.receiverState
    /\ isScanning' = r.isScanning
    /\ qrScanner' = r.qrScanner
    /\ expectedFileId' = r.expectedFileId
    /\ expectedTotalChunks' = r.expectedTotalChunks
    /\ expectedArchiveName' = r.expectedArchiveName
    /\ expectedDataSize' = r.expectedDataSize
    /\ expectedIsZip' = r.expectedIsZip
    /\ expectedOriginalFilename' = r.expectedOriginalFilename
    /\ receivedChunksMap' = r.receivedChunksMap
    /\ receivedChunkCount' = r.receivedChunkCount
    /\ receiverStatus' = r.receiverStatus
    /\ receiverDebug' = r.receiverDebug
    /\ startPending' = r.startPending
    /\ lateDecode' = r.lateDecode
    /\ tasks' = r.tasks
    /\ resetTimers' = r.resetTimers
    /\ downloaded' = r.downloaded

\* The step of the receiver whose result is the record r.
Commit(r) ==
    /\ ReceiverAssign(r)
    /\ UNCHANGED << svars, uvars, channel >>

IntakeStates ==
    { "waiting_handshake", "receiving_data", "waiting_final", "waiting_missing" }

\* ----------------------------------------------------------------- packets
Fids == { "A", "B" }
Sizes == { 0, 1 }
OriginalNames == { None, Some("o.txt") }

\* Base64 slices a Data packet carries; "" is the empty slice.
DataVals == { << "A", "Q" >>, << "=", "=" >> }

\* Checksums a Final packet carries; "" is the empty checksum.
ChkVals == { << >>, << "0","0","0","0" >>, << "0","0","0","1" >> }

\* A scanned string.  parse: JSON.parse succeeds; obj: it yields a non-null
\* object; bad: the fields whose JavaScript type is not the declared one.
Packet(typ, v, fid, siz, tot, ofn, seq, dat, chk) ==
    [ parse |-> TRUE, obj |-> TRUE, bad |-> {}, v |-> v, fid |-> fid,
      typ |-> typ, nam |-> MULTI_FILE_ARCHIVE_NAME, siz |-> siz, tot |-> tot,
      zip |-> TRUE, ofn |-> ofn, seq |-> seq, dat |-> dat, chk |-> chk ]

\* The session "A" in every shape, the session "B" in one.
Handshakes ==
    { Packet("h", PROTOCOL_VERSION, "A", siz, tot, ofn, 0, << >>, << >>) :
        siz \in Sizes, tot \in 0..MaxTotal, ofn \in OriginalNames }
    \cup { Packet("h", PROTOCOL_VERSION, "B", 1, 1, None, 0, << >>, << >>) }

DataPackets ==
    { Packet("d", PROTOCOL_VERSION, fid, 0, 0, None, seq, dat, << >>) :
        fid \in Fids, seq \in 0..(MaxTotal + 1), dat \in DataVals \cup { << >> } }

FinalPackets ==
    { Packet("f", PROTOCOL_VERSION, fid, 0, 0, None, 0, << >>, chk) :
        fid \in Fids, chk \in ChkVals }

\* Well-formed packets of another protocol version, of every type and fileId.
OtherVersion ==
    { Packet("h", PROTOCOL_VERSION + 1, fid, 1, 1, None, 0, << >>, << >>) :
        fid \in Fids }
    \cup { Packet("d", PROTOCOL_VERSION + 1, fid, 0, 0, None, 1, << "A", "Q" >>, << >>) :
        fid \in Fids }
    \cup { Packet("f", PROTOCOL_VERSION + 1, fid, 0, 0, None, 0, << >>, << "0","0","0","1" >>) :
        fid \in Fids }

Malformed ==
    LET p == Packet("d", PROTOCOL_VERSION, "A", 0, 0, None, 1, << "A", "Q" >>, << >>)
    IN  { [p EXCEPT !.parse = FALSE], [p EXCEPT !.obj = FALSE],
          [p EXCEPT !.bad = { "v" }], [p EXCEPT !.fid = ""] }

Packets ==
    Handshakes \cup DataPackets \cup FinalPackets \cup OtherVersion \cup Malformed

\* What JSZip and the download sink do in one step: the outcome of the
\* extraction, and whether the first and the second call of
\* triggerFileDownload succeed.
ZipOutcomes == { "extracted", "notfound", "ziperror" }
SinkOutcomes == { << a, b >> : a \in BOOLEAN, b \in BOOLEAN }

\* Only a Final packet can lead to a download, and to one at most.
SinkFor(payload) ==
    IF payload.typ = "f" THEN { << TRUE, TRUE >>, << FALSE, TRUE >> }
    ELSE { << TRUE, TRUE >> }

\* ---------------------------------------------------------------- handlers
\* The informational texts ("Status: ...") that are told apart.
KeptMessages ==
    { "All missing chunks received! Waiting for Final QR again...",
      "Waiting for missing chunk(s). Keep scanning." }

\* The status line: the text of an error message ("Error: ..."); of the
\* informational texts only KeptMessages are told apart.
StatusText(message, isError) ==
    IF isError \/ message \in KeptMessages THEN message ELSE "Status"

\* updateReceiverStatus: an error message also sets the state to "error".
updateReceiverStatus(r, message, isError) ==
    [r EXCEPT !.receiverStatus = StatusText(message, isError),
              !.receiverState = IF isError THEN "error" ELSE @]

\* updateReceiverUI: a status text for idle and complete; clears the debug text.
updateReceiverUI(r) ==
    LET r1 == IF r.receiverState = "idle"
              THEN updateReceiverStatus(r, "Ready to scan handshake QR.", FALSE)
              ELSE IF r.receiverState = "complete"
              THEN updateReceiverStatus(r, "Transfer complete. Ready for next scan.", FALSE)
              ELSE r
    IN  [r1 EXCEPT !.receiverDebug = ""]

clearReceivedChunks(r) ==
    [r EXCEPT !.receivedChunksMap = EmptyMap, !.receivedChunkCount = 0]

\* Mutation of addReceivedChunk: a chunk is stored under its arrival position.
addReceivedChunk_ByArrival(r, seq, data) ==
    IF ~MapHas(r.receivedChunksMap, seq)
    THEN [r EXCEPT !.receivedChunksMap = MapSet(@, r.receivedChunkCount + 1, data),
                   !.receivedChunkCount = @ + 1]
    ELSE r

addReceivedChunk(r, seq, data) ==
    IF ~MapHas(r.receivedChunksMap, seq)
    THEN [r EXCEPT !.receivedChunksMap = MapSet(@, seq, data),
                   !.receivedChunkCount = @ + 1]
    ELSE r

resetReceiverStateInternal(r) ==
    [r EXCEPT !.receiverState = "idle",
              !.expectedFileId = None,
              !.expectedTotalChunks = None,
              !.expectedArchiveName = None,
              !.expectedDataSize = None,
              !.expectedIsZip = FALSE,
              !.expectedOriginalFilename = None,
              !.receivedChunksMap = EmptyMap,
              !.receivedChunkCount = 0]

\* Mutation of startScan: the session of the scan before is kept.
startScan_KeepSession(r) ==
    IF r.isScanning THEN r
    ELSE LET r2 == [updateReceiverUI(r) EXCEPT !.receiverState = "waiting_handshake"]
             r3 == updateReceiverStatus(r2, "Initializing camera...", FALSE)
         IN  [r3 EXCEPT !.qrScanner = TRUE, !.startPending = TRUE]

\* startScan up to the call of scannerInstance.start(); the promise settles
\* in StartResolved or StartRejected.
startScan(r) ==
    IF r.isScanning THEN r
    ELSE LET r1 == updateReceiverUI(resetReceiverStateInternal(r))
             r2 == [r1 EXCEPT !.receiverState = "waiting_handshake"]
             r3 == updateReceiverStatus(r2, "Initializing camera...", FALSE)
         IN  [r3 EXCEPT !.qrScanner = TRUE, !.startPending = TRUE]

\* stopScan: the scanner is stopped and destroyed; a frame it was decoding
\* may still be delivered.
stopScan(r) ==
    IF ~r.isScanning \/ ~r.qrScanner THEN r
    ELSE LET r1 == [r EXCEPT !.qrScanner = FALSE, !.isScanning = FALSE,
                             !.lateDecode = TRUE]
         IN  IF r.receiverState \notin { "complete", "error" }
             THEN updateReceiverStatus(r1, "Scanning stopped.", FALSE)
             ELSE r1

\* Mutation of MissingChunks: the first chunk is not looked for.
MissingChunks_FromSecond(r) ==
    { i \in 2..Val(r.expectedTotalChunks) : ~MapHas(r.receivedChunksMap, i) }

\* The sequence numbers 1..total absent from the map.
MissingChunks(r) ==
    { i \in 1..Val(r.expectedTotalChunks) : ~MapHas(r.receivedChunksMap, i) }

displayMissingChunks(r) ==
    IF r.expectedTotalChunks = None THEN r
    ELSE IF MissingChunks(r) # {}
    THEN updateReceiverStatus(r, "Waiting for missing chunk(s). Scan the QR codes again.", FALSE)
    ELSE IF r.receiverState = "waiting_missing"
    THEN [updateReceiverStatus(r, "All missing chunks now received! Waiting final confirm again...", FALSE)
             EXCEPT !.receiverState = "waiting_final"]
    ELSE r

\* decodeURIComponent throws on a malformed escape (a lone "%"), and then
\* the fallback is returned; a name without "%" decodes to itself.
safeDecodeURIComponent(encodedString, fallback) ==
    IF encodedString = "%" THEN fallback ELSE Some(encodedString)

processHandshake(r, handshake) ==
    IF \/ "nam" \in handshake.bad
       \/ "siz" \in handshake.bad
       \/ "tot" \in handshake.bad
       \/ handshake.tot < 0
       \/ handshake.zip # TRUE
    THEN [r EXCEPT !.receiverDebug = "HShake Field Err"]
    ELSE IF r.expectedFileId = None \/ r.expectedFileId # Some(handshake.fid)
    THEN LET archiveName ==
                 safeDecodeURIComponent(handshake.nam, Some(MULTI_FILE_ARCHIVE_NAME))
             originalFilename ==
                 IF handshake.ofn # None /\ Val(handshake.ofn) # ""
                 THEN safeDecodeURIComponent(Val(handshake.ofn), None)
                 ELSE None
             r1 == clearReceivedChunks(r)
             r2 == [r1 EXCEPT !.expectedFileId = Some(handshake.fid),
                              !.expectedArchiveName = archiveName,
                              !.expectedDataSize = Some(handshake.siz),
                              !.expectedTotalChunks = Some(handshake.tot),
                              !.expectedIsZip = handshake.zip,
                              !.expectedOriginalFilename = originalFilename]
         IN  IF handshake.tot = 0
             THEN [updateReceiverStatus(r2, "Handshake OK (0 data chunks). Waiting for Final QR...", FALSE)
                      EXCEPT !.receiverState = "waiting_final"]
             ELSE [updateReceiverStatus(r2, "Handshake OK! Receiving chunks...", FALSE)
                      EXCEPT !.receiverState = "receiving_data"]
    ELSE r

\* Mutation of seqOutOfRange: only the lower limit is checked.
seqOutOfRange_NoUpperLimit(r, seq) ==
    seq <= 0

\* The range test of processDataChunk: `expectedTotalChunks ?? 0` is the
\* upper limit.
seqOutOfRange(r, seq) ==
    \/ seq <= 0
    \/ seq > (IF r.expectedTotalChunks = None THEN 0
              ELSE Val(r.expectedTotalChunks))

\* Mutation of processDataChunk: a Data packet whose sequence number is
\* already stored replaces the stored slice.
processDataChunk_LastWriteWins(r, dataChunk) ==
    IF \/ "seq" \in dataChunk.bad
       \/ seqOutOfRange(r, dataChunk.seq)
       \/ "dat" \in dataChunk.bad
       \/ dataChunk.dat = << >>
    THEN [r EXCEPT !.receiverDebug = "DChunk Field Err"]
    ELSE IF ~MapHas(r.receivedChunksMap, dataChunk.seq)
    THEN LET r1 == addReceivedChunk(r, dataChunk.seq, dataChunk.dat)
             r2 == updateReceiverStatus(r1, "Received chunk.", FALSE)
             nowComplete == r2.receivedChunkCount = Val(r.expectedTotalChunks)
         IN  IF r.receiverState = "waiting_missing"
             THEN LET r3 == displayMissingChunks(r2)
                  IN  IF nowComplete
                      THEN [updateReceiverStatus(r3, "All missing chunks received! Waiting for Final QR again...", FALSE)
                               EXCEPT !.receiverState = "waiting_final"]
                      ELSE r3
             ELSE IF nowComplete
             THEN [updateReceiverStatus(r2, "All data chunks received. Waiting for Final QR...", FALSE)
                      EXCEPT !.receiverState = "waiting_final"]
             ELSE r2
    ELSE [r EXCEPT !.receivedChunksMap = MapSet(@, dataChunk.seq, dataChunk.dat),
                   !.receiverDebug = "Dup"]

processDataChunk(r, dataChunk) ==
    IF \/ "seq" \in dataChunk.bad
       \/ seqOutOfRange(r, dataChunk.seq)
       \/ "dat" \in dataChunk.bad
       \/ dataChunk.dat = << >>
    THEN [r EXCEPT !.receiverDebug = "DChunk Field Err"]
    ELSE IF ~MapHas(r.receivedChunksMap, dataChunk.seq)
    THEN LET r1 == addReceivedChunk(r, dataChunk.seq, dataChunk.dat)
             r2 == updateReceiverStatus(r1, "Received chunk.", FALSE)
             nowComplete == r2.receivedChunkCount = Val(r.expectedTotalChunks)
         IN  IF r.receiverState = "waiting_missing"
             THEN LET r3 == displayMissingChunks(r2)
                  IN  IF nowComplete
                      THEN [updateReceiverStatus(r3, "All missing chunks received! Waiting for Final QR again...", FALSE)
                               EXCEPT !.receiverState = "waiting_final"]
                      ELSE r3
             ELSE IF nowComplete
             THEN [updateReceiverStatus(r2, "All data chunks received. Waiting for Final QR...", FALSE)
                      EXCEPT !.receiverState = "waiting_final"]
             ELSE r2
    ELSE [r EXCEPT !.receiverDebug = "Dup"]

\* The loop of verifyAndDownload that joins the chunks i..total in
\* sequence order.
RECURSIVE joinChunks(_, _, _)
joinChunks(map, i, total) ==
    IF i > total THEN << >>
    ELSE MapGet(map, i) \o joinChunks(map, i + 1, total)

\* `a || b` on nullable strings.
OrElse(a, b) == IF a # None /\ Val(a) # "" THEN a ELSE b

finalFilename(c) ==
    Val(OrElse(c.expectedOriginalFilename,
               OrElse(c.expectedArchiveName, Some(MULTI_FILE_ARCHIVE_NAME))))

\* utils.triggerFileDownload that succeeds: the buffer is offered to the user.
triggerFileDownload(r, kind, buffer, filename) ==
    [r EXCEPT !.downloaded =
        Append(@, [kind |-> kind, buffer |-> buffer, filename |-> filename])]

\* catch (downloadError) of verifyAndDownload.
downloadError(r) ==
    updateReceiverStatus(r, "Verification OK, but failed to trigger download", TRUE)

\* Mutation of postDownloadCleanup: no reset is scheduled.
postDownloadCleanup_NoReset(r) == r

\* Step 7 of verifyAndDownload: the deferred reset is scheduled when the
\* state is "complete".
postDownloadCleanup(r) ==
    IF r.receiverState = "complete"
    THEN [r EXCEPT !.resetTimers = @ + 1]
    ELSE r

\* Download of the whole archive in the state "complete"; ok: the sink
\* accepts it.
downloadArchive(r, buffer, filename, ok) ==
    LET r1 == [r EXCEPT !.receiverState = "complete"]
    IN  IF ok
        THEN postDownloadCleanup(triggerFileDownload(r1, "archive", buffer, filename))
        ELSE downloadError(r1)

\* catch (zipError) of verifyAndDownload.
zipErrorFallback(r, buffer, filename, ok) ==
    downloadArchive(
        updateReceiverStatus(r, "Error extracting file from ZIP. Downloading the raw archive instead.", TRUE),
        buffer, filename, ok)

\* The checks of verifyAndDownload, in its order; c is the snapshot taken on
\* entry.
missingFileInfo(c) ==
    \/ c.expectedTotalChunks = None
    \/ c.expectedDataSize = None
    \/ c.expectedArchiveName = None

chunkCountMismatch(c) == c.receivedChunkCount # Val(c.expectedTotalChunks)

assemblyFails(c) ==
    \E i \in 1..Val(c.expectedTotalChunks) : MapGet(c.receivedChunksMap, i) = << >>

\* Mutation of decodedEmpty: an empty buffer is an error whatever the size.
decodedEmpty_AnySize(c, buffer) == Len(buffer) = 0

decodedEmpty(c, buffer) == Len(buffer) = 0 /\ Val(c.expectedDataSize) > 0

\* Mutation of sizeMismatch: only a shorter buffer is a mismatch.
sizeMismatch_OnlyShorter(c, buffer) == Len(buffer) < Val(c.expectedDataSize)

sizeMismatch(c, buffer) == Len(buffer) # Val(c.expectedDataSize)

\* Mutation of checksumMismatch: only the lengths of the checksums are compared.
checksumMismatch_LengthOnly(buffer, finalPayload) ==
    Len(calculateChecksum(buffer)) # Len(finalPayload.chk)

checksumMismatch(buffer, finalPayload) ==
    calculateChecksum(buffer) # finalPayload.chk

\* verifyAndDownload up to its first await.  c is the snapshot taken on
\* entry, sink the outcomes of the calls of triggerFileDownload.  A call
\* suspended at the await keeps what it reads afterwards: the buffer and the
\* file name.
verifyAndDownload(r, finalPayload, sink) ==
    LET c == r
        r1 == IF c.isScanning THEN stopScan(r) ELSE r
    IN  IF missingFileInfo(c)
        THEN updateReceiverStatus(r1, "Internal Error: Missing file info for verification.", TRUE)
        ELSE IF chunkCountMismatch(c)
        THEN displayMissingChunks(
                 updateReceiverStatus(r1, "Internal Error: Chunk count mismatch.", TRUE))
        ELSE IF assemblyFails(c)
        THEN updateReceiverStatus(r1, "Error during data assembly", TRUE)
        ELSE LET fullBase64Zip ==
                     joinChunks(c.receivedChunksMap, 1, Val(c.expectedTotalChunks))
                 receivedZipBuffer == base64ToArrayBuffer(fullBase64Zip)
             IN  IF decodedEmpty(c, receivedZipBuffer)
                 THEN updateReceiverStatus(r1, "Error decoding base64 data", TRUE)
                 ELSE IF sizeMismatch(c, receivedZipBuffer)
                 THEN updateReceiverStatus(r1, "Verification FAILED: Size mismatch", TRUE)
                 ELSE IF checksumMismatch(receivedZipBuffer, finalPayload)
                 THEN updateReceiverStatus(r1, "Verification FAILED: Checksum mismatch!", TRUE)
                 ELSE IF OrElse(c.expectedOriginalFilename, None) # None
                 THEN [updateReceiverStatus(r1, "Extracting single file...", FALSE)
                          EXCEPT !.tasks = Append(@,
                              [ buffer   |-> receivedZipBuffer,
                                filename |-> finalFilename(c) ])]
                 ELSE downloadArchive(
                          updateReceiverStatus(r1, "Archive verified. Starting download", FALSE),
                          receivedZipBuffer, finalFilename(c), sink[1])

\* verifyAndDownload after its await: what JSZip answered (outcome) and what
\* the sink does with the first and the second download.
resumeVerifyAndDownload(r, task, outcome, sink) ==
    IF outcome = "extracted"
    THEN LET r1 == [updateReceiverStatus(r, "Extraction successful! Starting download...", FALSE)
                       EXCEPT !.receiverState = "complete"]
         IN  IF sink[1]
             THEN postDownloadCleanup(
                      triggerFileDownload(r1, "extracted", task.buffer, task.filename))
             ELSE zipErrorFallback(r1, task.buffer, task.filename, sink[2])
    ELSE IF outcome = "notfound"
    THEN LET r1 == [updateReceiverStatus(r, "Error: Expected file not found in archive. Downloading the raw archive instead.", TRUE)
                       EXCEPT !.receiverState = "complete"]
         IN  IF sink[1]
             THEN postDownloadCleanup(
                      triggerFileDownload(r1, "archive", task.buffer, task.filename))
             ELSE zipErrorFallback(r1, task.buffer, task.filename, sink[2])
    ELSE zipErrorFallback(r, task.buffer, task.filename, sink[1])

checkForMissingChunksAndFinalize(r, finalPayload, sink) ==
    IF r.expectedTotalChunks = None
    THEN LET r1 == updateReceiverStatus(r, "Internal Error: Cannot check for missing chunks, total count unknown.", TRUE)
         IN  IF r.isScanning THEN stopScan(r1) ELSE r1
    ELSE IF Val(r.expectedTotalChunks) = 0
    THEN verifyAndDownload(r, finalPayload, sink)
    ELSE IF MissingChunks(r) = {}
    THEN verifyAndDownload(r, finalPayload, sink)
    ELSE LET r1 == displayMissingChunks([r EXCEPT !.receiverState = "waiting_missing"])
         IN  IF ~r.isScanning
             THEN startScan(r1)
             ELSE updateReceiverStatus(r1, "Waiting for missing chunk(s). Keep scanning.", FALSE)

handleFinalPacket(r, finalPayload, sink) ==
    IF r.expectedFileId = None \/ Some(finalPayload.fid) # r.expectedFileId
    THEN r
    ELSE IF "chk" \in finalPayload.bad \/ Len(finalPayload.chk) = 0
    THEN stopScan(updateReceiverStatus(r, "Final packet received, but checksum is missing or invalid! Cannot verify.", TRUE))
    ELSE checkForMissingChunksAndFinalize(
             updateReceiverStatus(r, "Final confirmation QR received. Checking chunk completeness...", FALSE),
             finalPayload, sink)

\* Mutation of acceptsScans: a receiver in "error" takes scans too.
acceptsScans_AlsoInError(r) ==
    r.receiverState \in IntakeStates \cup { "error" }

\* The states in which handleScanResult processes a scan.
acceptsScans(r) == r.receiverState \in IntakeStates

\* Mutation of versionMismatch: only an older version is a mismatch.
versionMismatch_OnlyOlder(payload) == payload.v < PROTOCOL_VERSION

versionMismatch(payload) == payload.v # PROTOCOL_VERSION

\* Mutation of isExpectedFileId: every fileId passes.
isExpectedFileId_Always(r, payload) == TRUE

\* `payload.fid === currentState.expectedFileId`.
isExpectedFileId(r, payload) == Some(payload.fid) = r.expectedFileId

\* Mutation of handleScanResult: a Handshake is processed in every intake
\* phase, before the fileId filter.
handleScanResult_HandshakeInEveryPhase(r, payload, sink) ==
    IF ~acceptsScans(r) THEN r
    ELSE IF ~payload.parse THEN [r EXCEPT !.receiverDebug = "JSON Err"]
    ELSE IF \/ ~payload.obj
            \/ "v" \in payload.bad
            \/ "fid" \in payload.bad
            \/ "typ" \in payload.bad
            \/ payload.fid = ""
    THEN [r EXCEPT !.receiverDebug = "Struct Err"]
    ELSE IF versionMismatch(payload)
    THEN stopScan(updateReceiverStatus(r, "Incompatible protocol version. Stopping.", TRUE))
    ELSE IF payload.typ = "h" THEN processHandshake(r, payload)
    ELSE IF /\ r.receiverState # "waiting_handshake"
            /\ r.expectedFileId # None
            /\ ~isExpectedFileId(r, payload)
    THEN [r EXCEPT !.receiverDebug = "FID Err"]
    ELSE IF payload.typ = "f" /\ isExpectedFileId(r, payload)
    THEN handleFinalPacket(r, payload, sink)
    ELSE IF /\ payload.typ = "d" /\ isExpectedFileId(r, payload)
            /\ r.receiverState # "waiting_handshake"
    THEN processDataChunk(r, payload)
    ELSE r

handleScanResult(r, payload, sink) ==
    IF ~acceptsScans(r) THEN r
    ELSE IF ~payload.parse THEN [r EXCEPT !.receiverDebug = "JSON Err"]
    ELSE IF \/ ~payload.obj
            \/ "v" \in payload.bad
            \/ "fid" \in payload.bad
            \/ "typ" \in payload.bad
            \/ payload.fid = ""
    THEN [r EXCEPT !.receiverDebug = "Struct Err"]
    ELSE IF versionMismatch(payload)
    THEN stopScan(updateReceiverStatus(r, "Incompatible protocol version. Stopping.", TRUE))
    ELSE IF /\ r.receiverState # "waiting_handshake"
            /\ r.expectedFileId # None
            /\ ~isExpectedFileId(r, payload)
    THEN [r EXCEPT !.receiverDebug = "FID Err"]
    ELSE IF r.receiverState = "waiting_handshake"
    THEN IF payload.typ = "h" THEN processHandshake(r, payload)
         ELSE IF payload.typ = "f" /\ isExpectedFileId(r, payload)
         THEN handleFinalPacket(r, payload, sink)
         ELSE r
    ELSE IF r.receiverState \in { "receiving_data", "waiting_missing" }
    THEN IF payload.typ = "d" /\ isExpectedFileId(r, payload)
         THEN processDataChunk(r, payload)
         ELSE IF payload.typ = "f" /\ isExpectedFileId(r, payload)
         THEN handleFinalPacket(r, payload, sink)
         ELSE r
    ELSE \* waiting_final
         IF payload.typ = "f" /\ isExpectedFileId(r, payload)
         THEN handleFinalPacket(r, payload, sink)
         ELSE IF payload.typ = "d" /\ isExpectedFileId(r, payload)
         THEN processDataChunk(r, payload)
         ELSE r

\* The i-th suspended call of verifyAndDownload resumes and is no longer
\* pending.
finishExtraction(r, i, outcome, sink) ==
    LET rest == [j \in 1..(Len(r.tasks) - 1) |->
                    IF j < i THEN r.tasks[j] ELSE r.tasks[j + 1]]
    IN  resumeVerifyAndDownload(
            [r EXCEPT !.tasks = rest], r.tasks[i], outcome, sink)

\* The rejection handler of scannerInstance.start() in startScan.
startScanRejected(r) ==
    LET r1 == updateReceiverStatus(r, "Error starting scanner.", TRUE)
        r2 == resetReceiverStateInternal(r1)
    IN  updateReceiverUI([r2 EXCEPT !.qrScanner = FALSE, !.isScanning = FALSE])

\* The setTimeout callback of verifyAndDownload.
deferredReset(r) ==
    updateReceiverUI(
        resetReceiverStateInternal(
            updateReceiverStatus(r, "Download triggered. Ready for next scan.", FALSE)))

\* ================================================================= sender
\* The largest chunk count a transfer of the archives selected here has, and
\* the length of its main sequence.
MaxChunkNumber ==
    (4 * ((MaxBufferLen + 2) \div 3) + MIN_CHUNK_SIZE - 1) \div MIN_CHUNK_SIZE

MaxSent == MaxChunkNumber + 2

\* The sender's state as one record.
Sd ==
    [ filesToSend |-> filesToSend,
      isSingleFileOriginal |-> isSingleFileOriginal,
      originalSingleFilename |-> originalSingleFilename,
      dataToSendBuffer |-> dataToSendBuffer,
      base64Data |-> base64Data,
      chunks |-> chunks,
      currentChunkIndex |-> currentChunkIndex,
      totalDataChunks |-> totalDataChunks,
      transferFileId |-> transferFileId,
      transferTimer |-> transferTimer,
      dataToSendChecksum |-> dataToSendChecksum,
      senderTransferPhase |-> senderTransferPhase,
      specificChunksToSend |-> specificChunksToSend,
      specificChunkSendIndex |-> specificChunkSendIndex,
      totalStepsInCurrentSequence |-> totalStepsInCurrentSequence,
      isCurrentSequenceManual |-> isCurrentSequenceManual,
      errorCorrectionLevel |-> errorCorrectionLevel,
      chunkSizeInput |-> chunkSizeInput,
      startTransferBtnDisabled |-> startTransferBtnDisabled,
      fileInputDisabled |-> fileInputDisabled,
      senderViewHidden |-> senderViewHidden,
      qrOverlayHidden |-> qrOverlayHidden,
      qrDisplayAreaHidden |-> qrDisplayAreaHidden,
      senderPostTransferOptionsHidden |-> senderPostTransferOptionsHidden,
      nextChunkBtnHidden |-> nextChunkBtnHidden,
      nextChunkBtnDisabled |-> nextChunkBtnDisabled,
      senderStatusError |-> senderStatusError,
      timers |-> timers,
      zipping |-> zipping,
      sent |-> sent ]

\* The sender's variables after a step whose result is the record s.  The
\* record of the packets displayed is kept up to the length of the longest
\* main sequence.
SenderAssign(s) ==
    /\ filesToSend' = s.filesToSend
    /\ isSingleFileOriginal' = s.isSingleFileOriginal
    /\ originalSingleFilename' = s.originalSingleFilename
    /\ dataToSendBuffer' = s.dataToSendBuffer
    /\ base64Data' = s.base64Data
    /\ chunks' = s.chunks
    /\ currentChunkIndex' = s.currentChunkIndex
    /\ totalDataChunks' = s.totalDataChunks
    /\ transferFileId' = s.transferFileId
    /\ transferTimer' = s.transferTimer
    /\ dataToSendChecksum' = s.dataToSendChecksum
    /\ senderTransferPhase' = s.senderTransferPhase
    /\ specificChunksToSend' = s.specificChunksToSend
    /\ specificChunkSendIndex' = s.specificChunkSendIndex
    /\ totalStepsInCurrentSequence' = s.totalStepsInCurrentSequence
    /\ isCurrentSequenceManual' = s.isCurrentSequenceManual
    /\ errorCorrectionLevel' = s.errorCorrectionLevel
    /\ chunkSizeInput' = s.chunkSizeInput
    /\ startTransferBtnDisabled' = s.startTransferBtnDisabled
    /\ fileInputDisabled' = s.fileInputDisabled
    /\ senderViewHidden' = s.senderViewHidden
    /\ qrOverlayHidden' = s.qrOverlayHidden
    /\ qrDisplayAreaHidden' = s.qrDisplayAreaHidden
    /\ senderPostTransferOptionsHidden' = s.senderPostTransferOptionsHidden
    /\ nextChunkBtnHidden' = s.nextChunkBtnHidden
    /\ nextChunkBtnDisabled' = s.nextChunkBtnDisabled
    /\ senderStatusError' = s.senderStatusError
    /\ timers' = s.timers
    /\ zipping' = s.zipping
    /\ sent' = s.sent
    /\ Len(s.sent) <= MaxSent

\* The step of the sender whose result is the record s.
CommitSender(s) ==
    /\ SenderAssign(s)
    /\ UNCHANGED << vars, uvars, channel >>

\* ------------------------------------------------------- strings, numbers
DecDigits == << "0","1","2","3","4","5","6","7","8","9" >>

\* Number.prototype.toString() of a non-negative integer.
RECURSIVE toString10(_)
toString10(n) ==
    IF n < 10 THEN << DecDigits[n + 1] >>
    ELSE toString10(n \div 10) \o << DecDigits[(n % 10) + 1] >>

\* The characters of a sequence as one string value (by halves, to keep
\* the evaluation shallow).
RECURSIVE Join(_)
Join(s) ==
    IF s = << >> THEN ""
    ELSE IF Len(s) = 1 THEN s[1]
    ELSE Join(SubSeq(s, 1, Len(s) \div 2)) \o Join(SubSeq(s, (Len(s) \div 2) + 1, Len(s)))

\* n copies of the character c.
Repeat(c, n) == [i \in 1..n |-> c]

\* window.btoa of a byte string: three bytes give four characters, a rest
\* of one byte gives two characters and "==", a rest of two gives three
\* characters and "=".  Longer strings are encoded by halves of whole
\* triples.
RECURSIVE btoa(_)
btoa(b) ==
    IF Len(b) > 3
    THEN LET h == 3 * (((Len(b) \div 3) + 1) \div 2)
         IN  btoa(SubSeq(b, 1, h)) \o btoa(SubSeq(b, h + 1, Len(b)))
    ELSE IF Len(b) = 3
    THEN LET n == (b[1] * 256 + b[2]) * 256 + b[3]
         IN  << B64Chars[(n \div 262144) + 1], B64Chars[((n \div 4096) % 64) + 1],
                B64Chars[((n \div 64) % 64) + 1], B64Chars[(n % 64) + 1] >>
    ELSE IF Len(b) = 2
    THEN LET n == (b[1] * 256 + b[2]) * 4
         IN  << B64Chars[(n \div 4096) + 1], B64Chars[((n \div 64) % 64) + 1],
                B64Chars[(n % 64) + 1], "=" >>
    ELSE IF Len(b) = 1
    THEN LET n == b[1] * 16
         IN  << B64Chars[(n \div 64) + 1], B64Chars[(n % 64) + 1], "=", "=" >>
    ELSE << >>

\* utils.arrayBufferToBase64 (btoa never throws on byte values).
arrayBufferToBase64(buffer) == btoa(buffer)

\* encodeURIComponent: a character outside the unreserved set becomes "%"
\* and two upper-case hexadecimal digits (the file names here are ASCII;
\* the string is encoded by halves to keep the evaluation shallow).
RECURSIVE encodeURIComponent(_)
encodeURIComponent(s) ==
    LET unreserved == { B64Chars[i] : i \in 1..62 }
                          \cup { "-", "_", ".", "!", "~", "*", "'", "(", ")" }
        charCode(c) == CASE c = " " -> 32 [] c = "#" -> 35 [] c = "%" -> 37
                         [] c = "&" -> 38 [] c = "+" -> 43 [] c = "," -> 44
                         [] OTHER -> 63
        upperHex == << "0","1","2","3","4","5","6","7","8","9","A","B","C","D","E","F" >>
    IN  IF s = << >> THEN << >>
        ELSE IF Len(s) = 1
        THEN IF s[1] \in unreserved THEN s
             ELSE << "%", upperHex[(charCode(s[1]) \div 16) + 1],
                     upperHex[(charCode(s[1]) % 16) + 1] >>
        ELSE encodeURIComponent(SubSeq(s, 1, Len(s) \div 2))
                 \o encodeURIComponent(SubSeq(s, (Len(s) \div 2) + 1, Len(s)))

\* ------------------------------------------------------ capacity planning
\* config.QR_CAPACITY_ESTIMATES
QR_CAPACITY_ESTIMATES ==
    [level \in { "L", "M", "Q", "H" } |->
        CASE level = "L" -> 2000 [] level = "M" -> 1500
          [] level = "Q" -> 1100 [] OTHER -> 800]

\* Mutation of getQrCapacityEstimate: the estimate of level M whatever the
\* level.
getQrCapacityEstimate_Medium(level) ==
    QR_CAPACITY_ESTIMATES["M"]

\* utils.getQrCapacityEstimate
getQrCapacityEstimate(level) ==
    IF level \in DOMAIN QR_CAPACITY_ESTIMATES
    THEN QR_CAPACITY_ESTIMATES[level] ELSE QR_CAPACITY_ESTIMATES["M"]

\* utils.estimateMetadataSize with the default name lengths; fileId is a
\* string, "" standing for the falsy values.
estimateMetadataSize(payloadType, fileId) ==
    LET base == 30 + (IF Len(fileId) # 0 THEN Len(fileId) ELSE 15)
        byType == CASE payloadType = "h" ->
                           25 + Len(MULTI_FILE_ARCHIVE_NAME) + 5 + 3 + 5
                    [] payloadType = "d" -> 15 + 3 + 5
                    [] OTHER -> 15 + 5 + 4
    IN  base + byType + 10

\* JSON.stringify(payload).length: the keys in insertion order, numbers in
\* decimal, no character of a value needs an escape.
payloadStringLength(p) ==
    LET head == 5 + Len(toString10(p.v)) + 8 + Len(p.fid) + 1 + 10
    IN  CASE p.typ = "h" ->
                 head + 8 + Len(p.nam) + 1 + 7 + Len(toString10(p.siz))
                      + 7 + Len(toString10(p.tot)) + 11
                      + (IF p.ofn = None THEN 0 ELSE 8 + Len(Val(p.ofn)) + 1) + 1
          [] p.typ = "d" ->
                 head + 7 + Len(toString10(p.seq)) + 8 + Len(p.dat) + 1 + 1
          [] OTHER -> head + 8 + Len(p.chk) + 1 + 1

\* payloadString.length > qrCapacity * 1.1
exceedsCapacity(p, level) ==
    10 * payloadStringLength(p) > 11 * getQrCapacityEstimate(level)

\* ------------------------------------------------- DOM and timer helpers
\* updateSenderStatus: the status line starts with "Error:" or "Status:".
updateSenderStatus(s, isError) == [s EXCEPT !.senderStatusError = isError]

\* clearQrInstance, and every `dom.qrCodeContainer.innerHTML = ...`.
clearQrInstance(s) == [s EXCEPT !.sent = << >>]

\* Mutation of clearTimeout: the callback stays scheduled.
clearTimeout_Keep(s, id) == s

\* window.clearTimeout
clearTimeout(s, id) == [s EXCEPT !.timers = { t \in @ : t.id # id }]

\* state.setTransferTimer(window.setTimeout(callback, ...)): the new id is
\* one no pending timer has and the stored handle does not name.
setTransferTimer(s, callback) ==
    LET used == { t.id : t \in s.timers }
                    \cup (IF s.transferTimer = None THEN {} ELSE { Val(s.transferTimer) })
        id == CHOOSE n \in 1..(Cardinality(used) + 1) : n \notin used
        s1 == IF s.transferTimer # None THEN clearTimeout(s, Val(s.transferTimer)) ELSE s
    IN  [s1 EXCEPT !.timers = @ \cup { [id |-> id, cb |-> callback] },
                   !.transferTimer = Some(id)]

\* state.setSenderChunks
setSenderChunks(s, newChunks) ==
    [s EXCEPT !.chunks = newChunks, !.totalDataChunks = Len(newChunks),
              !.currentChunkIndex = -1]

\* state.resetSenderStateInternal
resetSenderStateInternal(s, clearFiles) ==
    LET s1 == IF s.transferTimer # None
              THEN [clearTimeout(s, Val(s.transferTimer)) EXCEPT !.transferTimer = None]
              ELSE s
        s2 == [s1 EXCEPT
                 !.senderTransferPhase =
                     IF clearFiles THEN "idle"
                     ELSE IF s.dataToSendBuffer # None THEN "ready" ELSE "idle",
                 !.specificChunksToSend = << >>,
                 !.specificChunkSendIndex = 0,
                 !.totalStepsInCurrentSequence = 0,
                 !.currentChunkIndex = -1,
                 !.transferFileId = "",
                 !.chunks = << >>,
                 !.totalDataChunks = 0]
    IN  IF clearFiles
        THEN [s2 EXCEPT !.filesToSend = 0,
                        !.dataToSendBuffer = None,
                        !.base64Data = << >>,
                        !.dataToSendChecksum = << >>,
                        !.isSingleFileOriginal = FALSE,
                        !.originalSingleFilename = None,
                        !.senderTransferPhase = "idle"]
        ELSE s2

\* ------------------------------------------------------- chunk splitting
\* Mutation of splitLoop: a last, shorter chunk is dropped.
RECURSIVE splitLoop_WholeOnly(_, _, _)
splitLoop_WholeOnly(data, effectiveChunkSize, startIndex) ==
    IF startIndex + effectiveChunkSize <= Len(data)
    THEN << SubSeq(data, startIndex + 1, startIndex + effectiveChunkSize) >>
             \o splitLoop_WholeOnly(data, effectiveChunkSize, startIndex + effectiveChunkSize)
    ELSE << >>

\* The loop of prepareChunks from startIndex (0-based).
RECURSIVE splitLoop(_, _, _)
splitLoop(data, effectiveChunkSize, startIndex) ==
    IF startIndex < Len(data)
    THEN LET remainingLength == Len(data) - startIndex
             currentChunkLength == IF effectiveChunkSize < remainingLength
                                   THEN effectiveChunkSize ELSE remainingLength
         IN  << SubSeq(data, startIndex + 1, startIndex + currentChunkLength) >>
                 \o splitLoop(data, effectiveChunkSize, startIndex + currentChunkLength)
    ELSE << >>

\* sender.prepareChunks: the state it leaves and the value it returns.
prepareChunks(s) ==
    IF s.base64Data = << >> \/ s.dataToSendBuffer = None
    THEN [s |-> setSenderChunks(updateSenderStatus(s, s.filesToSend > 0), << >>),
          ok |-> FALSE]
    ELSE IF s.chunkSizeInput = None \/ Val(s.chunkSizeInput) < MIN_CHUNK_SIZE
    THEN [s |-> [setSenderChunks(updateSenderStatus(s, TRUE), << >>)
                    EXCEPT !.startTransferBtnDisabled = TRUE],
          ok |-> FALSE]
    ELSE LET qrCapacity == getQrCapacityEstimate(s.errorCorrectionLevel)
             metaSize == estimateMetadataSize("d",
                             IF s.transferFileId # "" THEN s.transferFileId
                             ELSE "fid_placeholder")
             maxDataPayload == qrCapacity - metaSize - QR_CHUNK_SIZE_BUFFER
             smaller == IF Val(s.chunkSizeInput) < maxDataPayload
                        THEN Val(s.chunkSizeInput) ELSE maxDataPayload
             size == IF smaller > 1 THEN smaller ELSE 1
         IN  IF maxDataPayload <= 0
             THEN [s |-> [setSenderChunks(updateSenderStatus(s, TRUE), << >>)
                             EXCEPT !.startTransferBtnDisabled = TRUE],
                   ok |-> FALSE]
             ELSE [s |-> [setSenderChunks(s, splitLoop(s.base64Data, size, 0))
                             EXCEPT !.startTransferBtnDisabled = FALSE,
                                    !.senderTransferPhase = "ready"],
                   ok |-> TRUE]

\* --------------------------------------------------------- file selection
\* sender.handleFileError
handleFileError(s) ==
    [updateSenderStatus(clearQrInstance(resetSenderStateInternal(s, TRUE)), TRUE)
        EXCEPT !.startTransferBtnDisabled = TRUE,
               !.senderTransferPhase = "error"]

\* sender.handleFileSelect up to its first await.  A selection is the
\* number of files, whether it is one plain file, and the name kept.
handleFileSelect(s, selection) ==
    LET s1 == [updateSenderStatus(clearQrInstance(resetSenderStateInternal(s, TRUE)), FALSE)
                  EXCEPT !.startTransferBtnDisabled = TRUE]
    IN  IF selection.count = 0
        THEN handleFileError(s1)
        ELSE [s1 EXCEPT !.filesToSend = selection.count,
                        !.isSingleFileOriginal = selection.single,
                        !.originalSingleFilename = selection.name,
                        !.senderTransferPhase = "processing",
                        !.zipping = @ + 1]

\* sender.handleFileSelect after zip.generateAsync has resolved.
handleFileSelectResolved(s, zipBuffer) ==
    LET s1 == [s EXCEPT !.zipping = @ - 1,
                        !.dataToSendBuffer = Some(zipBuffer),
                        !.base64Data = arrayBufferToBase64(zipBuffer),
                        !.dataToSendChecksum = calculateChecksum(zipBuffer),
                        !.chunks = << >>,
                        !.totalDataChunks = 0,
                        !.currentChunkIndex = -1,
                        !.senderTransferPhase = "ready"]
    IN  prepareChunks([updateSenderStatus(s1, FALSE)
                          EXCEPT !.startTransferBtnDisabled = FALSE]).s

\* sender.handleFileSelect when reading or zipping a file has failed.
handleFileSelectRejected(s) ==
    [handleFileError([s EXCEPT !.zipping = @ - 1])
        EXCEPT !.senderTransferPhase = "error"]

\* ------------------------------------------------------------- sequencer
ActivePhases == { "transferring", "sending_specific", "final_qr_displayed" }

\* state.setTransferTimer(null)
setTransferTimerNull(s) ==
    IF s.transferTimer # None
    THEN [clearTimeout(s, Val(s.transferTimer)) EXCEPT !.transferTimer = None]
    ELSE s

\* sender.handleStopTransfer
handleStopTransfer(s, fullReset) ==
    LET s1 == IF s.transferTimer # None THEN clearTimeout(s, Val(s.transferTimer)) ELSE s
        s2 == clearQrInstance(resetSenderStateInternal(s1, fullReset))
    IN  [updateSenderStatus(s2, FALSE) EXCEPT
            !.isCurrentSequenceManual = FALSE,
            !.qrOverlayHidden = TRUE,
            !.senderPostTransferOptionsHidden = TRUE,
            !.startTransferBtnDisabled =
                ~(s2.filesToSend > 0 /\ s2.dataToSendBuffer # None),
            !.fileInputDisabled = FALSE,
            !.nextChunkBtnHidden = TRUE,
            !.nextChunkBtnDisabled = TRUE]

\* sender.generateOrUpdateQrCode: qrOk tells whether the QR library accepts
\* the payload; when it throws, the transfer is stopped and the caller
\* carries on.
generateOrUpdateQrCode(s, payload, qrOk) ==
    IF qrOk THEN [s EXCEPT !.sent = Append(@, payload)]
    ELSE handleStopTransfer(clearQrInstance(updateSenderStatus(s, TRUE)), FALSE)

\* The packets of sender.displayNextChunk and displayFinalConfirmationQR.
handshakePayload(s) ==
    Packet("h", PROTOCOL_VERSION, s.transferFileId,
           Len(Val(s.dataToSendBuffer)), s.totalDataChunks,
           IF s.isSingleFileOriginal /\ s.originalSingleFilename # None
                /\ Val(s.originalSingleFilename) # << >>
           THEN Some(Join(encodeURIComponent(Val(s.originalSingleFilename))))
           ELSE None,
           0, << >>, << >>)

\* Mutation of dataPayload: the packet announces the next sequence number.
dataPayload_NextSeq(s, seq) ==
    Packet("d", PROTOCOL_VERSION, s.transferFileId, 0, 0, None, seq + 1,
           s.chunks[seq], << >>)

dataPayload(s, seq) ==
    Packet("d", PROTOCOL_VERSION, s.transferFileId, 0, 0, None, seq,
           s.chunks[seq], << >>)

finalPayload(s) ==
    Packet("f", PROTOCOL_VERSION, s.transferFileId, 0, 0, None, 0, << >>,
           s.dataToSendChecksum)

\* sender.handlePostFinalState
handlePostFinalState(s) ==
    LET s1 == setTransferTimerNull(s)
    IN  IF s1.senderTransferPhase \notin ActivePhases THEN s1
        ELSE [updateSenderStatus(s1, FALSE) EXCEPT
                 !.senderTransferPhase = "post_final",
                 !.qrDisplayAreaHidden = TRUE,
                 !.senderPostTransferOptionsHidden = FALSE,
                 !.nextChunkBtnHidden = TRUE,
                 !.nextChunkBtnDisabled = TRUE,
                 !.isCurrentSequenceManual = FALSE]

\* sender.displayNextChunk.  c is the snapshot taken on entry; the steps
\* after generateOrUpdateQrCode read the module state again.
displayNextChunk(c, qrOk) ==
    LET display == c.currentChunkIndex + 1
        emit(payload) ==
            LET s0 == updateSenderStatus(c, FALSE)
            IN  IF exceedsCapacity(payload, c.errorCorrectionLevel)
                THEN handleStopTransfer(
                         resetSenderStateInternal(updateSenderStatus(s0, TRUE), FALSE),
                         FALSE)
                ELSE LET s1 == generateOrUpdateQrCode(s0, payload, qrOk)
                         s2 == [s1 EXCEPT !.currentChunkIndex = c.currentChunkIndex + 1]
                     IN  IF s2.currentChunkIndex >= c.totalDataChunks + 1
                         THEN LET s3 == [s2 EXCEPT !.senderTransferPhase = "final_qr_displayed"]
                              IN  IF s3.isCurrentSequenceManual
                                  THEN [updateSenderStatus(s3, FALSE)
                                           EXCEPT !.nextChunkBtnDisabled = FALSE]
                                  ELSE updateSenderStatus(
                                           setTransferTimer(s3, "handlePostFinalState"),
                                           FALSE)
                         ELSE IF s2.isCurrentSequenceManual
                              THEN [s2 EXCEPT !.nextChunkBtnDisabled = FALSE]
                              ELSE setTransferTimer(s2, "displayNextChunk")
    IN  IF c.senderTransferPhase # "transferring" THEN c
        ELSE IF c.dataToSendBuffer = None THEN handleFileError(c)
        ELSE IF display = 0 THEN emit(handshakePayload(c))
        ELSE IF display <= c.totalDataChunks
        THEN IF display - 1 >= Len(c.chunks) THEN handleFileError(c)
             ELSE emit(dataPayload(c, display))
        ELSE IF display = c.totalDataChunks + 1
        THEN IF c.dataToSendChecksum = << >> THEN handleFileError(c)
             ELSE emit(finalPayload(c))
        ELSE handlePostFinalState([c EXCEPT !.senderTransferPhase = "post_final"])

\* What startTransfer and handleSendAllAgain do to the modal.
showModalForSequence(s, manual) ==
    [updateSenderStatus(clearQrInstance(s), FALSE) EXCEPT
        !.isCurrentSequenceManual = manual,
        !.qrDisplayAreaHidden = FALSE,
        !.senderPostTransferOptionsHidden = TRUE,
        !.nextChunkBtnHidden = ~manual,
        !.nextChunkBtnDisabled = ~manual]

\* sender.startTransfer.  c is the snapshot taken on entry, before
\* prepareChunks runs; manual is dom.manualModeCheckbox.checked, fid the
\* identifier minted from the clock and Math.random.
startTransfer(c, manual, fid, qrOk) ==
    IF c.filesToSend = 0 \/ c.dataToSendBuffer = None
    THEN updateSenderStatus(c, TRUE)
    ELSE LET p == prepareChunks(c)
         IN  IF ~p.ok THEN updateSenderStatus(p.s, TRUE)
             ELSE LET s1 == [setTransferTimerNull(p.s) EXCEPT
                                !.transferFileId = fid,
                                !.senderTransferPhase = "transferring",
                                !.currentChunkIndex = -1,
                                !.totalStepsInCurrentSequence = c.totalDataChunks + 2,
                                !.specificChunksToSend = << >>,
                                !.specificChunkSendIndex = 0,
                                !.startTransferBtnDisabled = TRUE,
                                !.fileInputDisabled = TRUE,
                                !.qrOverlayHidden = FALSE]
                  IN  displayNextChunk(showModalForSequence(s1, manual), qrOk)

\* sender.handleSendAllAgain; manual is dom.resendManualModeCheckbox.checked.
handleSendAllAgain(c, manual, qrOk) ==
    IF c.dataToSendBuffer = None \/ c.base64Data = << >>
    THEN updateSenderStatus(c, TRUE)
    ELSE LET s1 == [setTransferTimerNull(c) EXCEPT
                       !.senderTransferPhase = "transferring",
                       !.currentChunkIndex = -1,
                       !.totalStepsInCurrentSequence = c.totalDataChunks + 2,
                       !.specificChunksToSend = << >>,
                       !.specificChunkSendIndex = 0]
         IN  displayNextChunk(showModalForSequence(s1, manual), qrOk)

\* --------------------------------------------------- utils.parseChunkInput
\* String.prototype.trim (the white space typed is the blank).
RECURSIVE Trim(_)
Trim(s) ==
    IF s # << >> /\ Head(s) = " " THEN Trim(Tail(s))
    ELSE IF s # << >> /\ s[Len(s)] = " " THEN Trim(SubSeq(s, 1, Len(s) - 1))
    ELSE s

\* String.prototype.split(sep) for a one-character separator.
RECURSIVE Split(_, _)
Split(s, sep) ==
    IF \E i \in 1..Len(s) : s[i] = sep
    THEN LET i == CHOOSE j \in 1..Len(s) :
                      s[j] = sep /\ \A k \in 1..(j - 1) : s[k] # sep
         IN  << SubSeq(s, 1, i - 1) >> \o Split(SubSeq(s, i + 1, Len(s)), sep)
    ELSE << s >>

\* /^\d+$/.test(s)
IsDigits(s) ==
    s # << >> /\ \A i \in 1..Len(s) : \E d \in 1..10 : DecDigits[d] = s[i]

\* parseInt(s, 10) of a string of digits.
RECURSIVE parseInt(_)
parseInt(s) ==
    IF s = << >> THEN 0
    ELSE 10 * parseInt(SubSeq(s, 1, Len(s) - 1))
            + (CHOOSE d \in 0..9 : DecDigits[d + 1] = s[Len(s)])

\* Array.prototype.sort((a, b) => a - b) of the members of a set.
RECURSIVE SortedSeq(_)
SortedSeq(set) ==
    IF set = {} THEN << >>
    ELSE LET m == CHOOSE x \in set : \A y \in set : x <= y
         IN  << m >> \o SortedSeq(set \ { m })

\* The loop of parseChunkInput over the parts from the i-th on: the numbers
\* collected, or None where the function returns null.
RECURSIVE parseParts(_, _, _, _)
parseParts(parts, i, uniqueChunks, maxChunk) ==
    IF i > Len(parts) THEN Some(uniqueChunks)
    ELSE LET trimmedPart == Trim(parts[i])
         IN  IF trimmedPart = << >>
             THEN parseParts(parts, i + 1, uniqueChunks, maxChunk)
             ELSE IF \E k \in 1..Len(trimmedPart) : trimmedPart[k] = "-"
             THEN LET rangeParts == Split(trimmedPart, "-")
                  IN  IF Len(rangeParts) # 2 THEN None
                      ELSE LET startStr == Trim(rangeParts[1])
                               endStr == Trim(rangeParts[2])
                           IN  IF ~IsDigits(startStr) \/ ~IsDigits(endStr) THEN None
                               ELSE LET start == parseInt(startStr)
                                        end == parseInt(endStr)
                                    IN  IF start <= 0 \/ end < start
                                             \/ start > maxChunk \/ end > maxChunk
                                        THEN None
                                        ELSE parseParts(parts, i + 1,
                                                 uniqueChunks \cup (start..end), maxChunk)
             ELSE IF ~IsDigits(trimmedPart) THEN None
             ELSE LET num == parseInt(trimmedPart)
                  IN  IF num <= 0 \/ num > maxChunk THEN None
                      ELSE parseParts(parts, i + 1, uniqueChunks \cup { num }, maxChunk)

\* Mutation of parseChunkInput: the numbers in descending order.
parseChunkInput_Descending(input, maxChunk) ==
    IF Trim(input) = << >> THEN Some(<< >>)
    ELSE IF maxChunk <= 0 THEN None
    ELSE LET r == parseParts(Split(input, ","), 1, {}, maxChunk)
         IN  IF r = None THEN None
             ELSE Some([i \in 1..Cardinality(Val(r)) |->
                          SortedSeq(Val(r))[Cardinality(Val(r)) + 1 - i]])

\* utils.parseChunkInput: Some(list), or None for null.
parseChunkInput(input, maxChunk) ==
    IF Trim(input) = << >> THEN Some(<< >>)
    ELSE IF maxChunk <= 0 THEN None
    ELSE LET r == parseParts(Split(input, ","), 1, {}, maxChunk)
         IN  IF r = None THEN None ELSE Some(SortedSeq(Val(r)))

\* -------------------------------------------------------- specific resend
\* sender.displayFinalConfirmationQR
displayFinalConfirmationQR(c, qrOk) ==
    IF c.dataToSendBuffer = None \/ c.dataToSendChecksum = << >>
    THEN handleFileError(c)
    ELSE LET s0 == updateSenderStatus(
                       [c EXCEPT !.senderTransferPhase = "final_qr_displayed"], FALSE)
         IN  IF exceedsCapacity(finalPayload(c), c.errorCorrectionLevel)
             THEN handleStopTransfer(
                      resetSenderStateInternal(updateSenderStatus(s0, TRUE), FALSE),
                      FALSE)
             ELSE LET s1 == generateOrUpdateQrCode(s0, finalPayload(c), qrOk)
                  IN  IF s1.isCurrentSequenceManual
                      THEN [s1 EXCEPT !.nextChunkBtnDisabled = FALSE,
                                      !.nextChunkBtnHidden = FALSE]
                      ELSE setTransferTimer(s1, "handlePostFinalState")

\* sender.scheduleNextSpecificChunk
scheduleNextSpecificChunk(s) ==
    IF s.senderTransferPhase # "sending_specific" THEN s
    ELSE IF s.specificChunkSendIndex < Len(s.specificChunksToSend)
    THEN IF s.isCurrentSequenceManual
         THEN [s EXCEPT !.nextChunkBtnDisabled = FALSE]
         ELSE setTransferTimer(s, "displaySpecificChunk")
    ELSE LET s1 == updateSenderStatus(s, FALSE)
         IN  IF s1.isCurrentSequenceManual
             THEN [s1 EXCEPT !.nextChunkBtnDisabled = FALSE]
             ELSE setTransferTimer(s1, "displayFinalConfirmationQR")

\* sender.displaySpecificChunk; specificChunkSendIndex counts from 0.
displaySpecificChunk(c, qrOk) ==
    IF c.senderTransferPhase # "sending_specific" THEN c
    ELSE IF c.specificChunkSendIndex >= Len(c.specificChunksToSend)
    THEN displayFinalConfirmationQR(updateSenderStatus(c, FALSE), qrOk)
    ELSE IF c.dataToSendBuffer = None \/ Len(c.chunks) = 0
    THEN handleFileError(c)
    ELSE LET chunkSequenceNumber == c.specificChunksToSend[c.specificChunkSendIndex + 1]
         IN  IF chunkSequenceNumber - 1 < 0 \/ chunkSequenceNumber - 1 >= Len(c.chunks)
             THEN scheduleNextSpecificChunk(
                      [updateSenderStatus(c, TRUE)
                          EXCEPT !.specificChunkSendIndex = c.specificChunkSendIndex + 1])
             ELSE LET payload == dataPayload(c, chunkSequenceNumber)
                      s0 == updateSenderStatus(c, FALSE)
                  IN  IF exceedsCapacity(payload, c.errorCorrectionLevel)
                      THEN handlePostFinalState(
                               [updateSenderStatus(s0, TRUE)
                                   EXCEPT !.senderTransferPhase = "post_final"])
                      ELSE scheduleNextSpecificChunk(
                               [generateOrUpdateQrCode(s0, payload, qrOk)
                                   EXCEPT !.specificChunkSendIndex =
                                              c.specificChunkSendIndex + 1])

\* sender.handleSendSpecific; input is dom.specificChunksInput.value.
handleSendSpecific(c, input, manual, qrOk) ==
    IF c.dataToSendBuffer = None \/ Len(c.chunks) = 0
    THEN updateSenderStatus(c, TRUE)
    ELSE LET parsedChunks == parseChunkInput(input, c.totalDataChunks)
         IN  IF parsedChunks = None \/ Val(parsedChunks) = << >> THEN c
             ELSE LET s1 == [setTransferTimerNull(c) EXCEPT
                                !.specificChunksToSend = Val(parsedChunks),
                                !.specificChunkSendIndex = 0,
                                !.senderTransferPhase = "sending_specific",
                                !.totalStepsInCurrentSequence = Len(Val(parsedChunks)),
                                !.isCurrentSequenceManual = manual]
                      s2 == [updateSenderStatus(clearQrInstance(s1), FALSE) EXCEPT
                                !.senderPostTransferOptionsHidden = TRUE,
                                !.qrDisplayAreaHidden = FALSE,
                                !.nextChunkBtnHidden = ~manual,
                                !.nextChunkBtnDisabled = ~manual]
                  IN  displaySpecificChunk(s2, qrOk)

\* ------------------------------------------------------ the other controls
\* sender.updateChunkSizeDefaults after the level select has changed.
updateChunkSizeDefaults(c) ==
    LET qrCapacity == getQrCapacityEstimate(c.errorCorrectionLevel)
        defaultChunkSize == IF qrCapacity - QR_CHUNK_SIZE_BUFFER > MIN_CHUNK_SIZE
                            THEN qrCapacity - QR_CHUNK_SIZE_BUFFER
                            ELSE MIN_CHUNK_SIZE
        s1 == [c EXCEPT !.chunkSizeInput = Some(defaultChunkSize)]
    IN  IF c.base64Data # << >> THEN prepareChunks(s1).s ELSE s1

\* main.showView, the sender's part.  c is the snapshot taken on entry.
showView(c, viewId) ==
    LET s1 == IF c.senderTransferPhase \notin { "idle", "ready" }
              THEN handleStopTransfer(c, FALSE) ELSE c
    IN  IF viewId = "sender"
        THEN IF c.dataToSendBuffer # None
             THEN [updateSenderStatus(prepareChunks(s1).s, FALSE)
                      EXCEPT !.senderViewHidden = FALSE,
                             !.startTransferBtnDisabled = FALSE]
             ELSE [updateSenderStatus(s1, FALSE)
                      EXCEPT !.senderViewHidden = FALSE,
                             !.startTransferBtnDisabled = TRUE]
        ELSE [s1 EXCEPT !.senderViewHidden = TRUE]

\* The click listener of dom.nextChunkBtn (main.ts).
nextChunkBtnClick(c, qrOk) ==
    IF c.senderTransferPhase = "transferring" THEN displayNextChunk(c, qrOk)
    ELSE IF c.senderTransferPhase = "sending_specific" THEN displaySpecificChunk(c, qrOk)
    ELSE IF c.senderTransferPhase = "final_qr_displayed"
    THEN IF c.currentChunkIndex > c.totalDataChunks
         THEN handlePostFinalState(c)
         ELSE displayFinalConfirmationQR(c, qrOk)
    ELSE c

\* Mutation of stopTransferBtnClick: the button always resets in full.
stopTransferBtnClick_AlwaysFull(c) == handleStopTransfer(c, TRUE)

\* The click listener of dom.stopTransferBtn (main.ts).
stopTransferBtnClick(c) ==
    handleStopTransfer(c, c.senderTransferPhase = "post_final")

\* ---------------------------------------------------- the sender's inputs
\* The bytes the zip collaborator returns for a selection: an archive of n
\* bytes.
ArchiveBytes(n) == [i \in 1..n |-> (i * 37) % 256]

ZipBuffers ==
    { ArchiveBytes(n) : n \in { 0, (MaxBufferLen \div 2) + 1, MaxBufferLen } }


\* What the file input delivers: nothing, one file (with a short name, and
\* with long names that need escaping), a folder of two files.
Selections ==
    { [count |-> 0, single |-> FALSE, name |-> None],
      [count |-> 1, single |-> TRUE, name |-> Some(<< "o", ".", "t", "x", "t" >>)],
      [count |-> 1, single |-> TRUE, name |-> Some(Repeat("#", 230))],
      [count |-> 1, single |-> TRUE, name |-> Some(Repeat("#", 255))],
      [count |-> 2, single |-> FALSE, name |-> Some(<< "d" >>)] }

\* Levels chosen in the error correction select: the default and the one of
\* least capacity.
SelectedLevels == { "M", "H" }

\* Values typed into the chunk size field; None is text parseInt rejects.
TypedChunkSizes == { None, Some(MIN_CHUNK_SIZE - 1), Some(MIN_CHUNK_SIZE) }

\* Identifiers startTransfer mints.
MintedFids == { "fid_1762214400000_a1b2c3", "fid_1762214400500_d4e5f6" }

\* A list of numbers as typed: separated by commas.
RECURSIVE TypedList(_)
TypedList(l) ==
    IF l = << >> THEN << >>
    ELSE IF Len(l) = 1 THEN toString10(l[1])
    ELSE toString10(l[1]) \o << "," >> \o TypedList(Tail(l))

\* Lists of chunk numbers typed into the Send Specific field: in any order,
\* with repeated numbers, and with a number no archive here has a chunk for.
TypedLists ==
    { << 1 >>, << 2 >>, << 3 >>, << 1, 2 >>, << 2, 1 >>, << 3, 1 >>, << 2, 3 >>,
      << 2, 2 >>, << 3, 3, 1 >>, << 1, 2, 3 >>, << 3, 1, 2 >>, << 3, 2, 1 >>,
      << 1, 3, 1, 3 >>, << 4 >>, << 1, 4 >> }

\* Texts typed into the Send Specific field: those lists, ranges, blanks,
\* and texts parseChunkInput rejects.
SpecificInputs ==
    { TypedList(l) : l \in TypedLists }
    \cup { << >>, << " " >>,
           << "1", "-", "2" >>, << " ", "2", " ", "-", " ", "3", ",", ",", "1" >>,
           << "2", "-", "1" >>, << "1", "-", "2", "-", "3" >>,
           << "0" >>, << "x" >>, << "1", ".", "5" >> }

\* ------------------------------------------------ the sender, constructed
\* initializeApp: updateChunkSizeDefaults for the default level, showView
\* for a URL without hash, resetSenderStateInternal(true), start button
\* disabled.
SenderConstructed ==
    /\ filesToSend = 0
    /\ isSingleFileOriginal = FALSE
    /\ originalSingleFilename = None
    /\ dataToSendBuffer = None
    /\ base64Data = << >>
    /\ chunks = << >>
    /\ currentChunkIndex = -1
    /\ totalDataChunks = 0
    /\ transferFileId = ""
    /\ transferTimer = None
    /\ dataToSendChecksum = << >>
    /\ senderTransferPhase = "idle"
    /\ specificChunksToSend = << >>
    /\ specificChunkSendIndex = 0
    /\ totalStepsInCurrentSequence = 0
    /\ isCurrentSequenceManual = FALSE
    /\ errorCorrectionLevel = "M"
    /\ chunkSizeInput = Some(getQrCapacityEstimate("M") - QR_CHUNK_SIZE_BUFFER)
    /\ startTransferBtnDisabled = TRUE
    /\ fileInputDisabled = FALSE
    /\ senderViewHidden = FALSE
    /\ qrOverlayHidden = TRUE
    /\ qrDisplayAreaHidden = FALSE
    /\ senderPostTransferOptionsHidden = TRUE
    /\ nextChunkBtnHidden = TRUE
    /\ nextChunkBtnDisabled = TRUE
    /\ senderStatusError = FALSE
    /\ timers = {}
    /\ zipping = 0
    /\ sent = << >>

\* ----------------------------------------------------------------- actions
\* initializeApp: resetReceiverStateInternal, then updateReceiverUI.
ReceiverConstructed ==
    /\ receiverState = "idle"
    /\ isScanning = FALSE
    /\ qrScanner = FALSE
    /\ expectedFileId = None
    /\ expectedTotalChunks = None
    /\ expectedArchiveName = None
    /\ expectedDataSize = None
    /\ expectedIsZip = FALSE
    /\ expectedOriginalFilename = None
    /\ receivedChunksMap = EmptyMap
    /\ receivedChunkCount = 0
    /\ receiverStatus = StatusText("Ready to scan handshake QR.", FALSE)
    /\ receiverDebug = ""
    /\ startPending = FALSE
    /\ lateDecode = FALSE
    /\ tasks = << >>
    /\ resetTimers = 0
    /\ downloaded = << >>

\* The application after initializeApp; no pure function is being applied.
Init ==
    /\ ReceiverConstructed
    /\ SenderConstructed
    /\ call = None
    /\ result = None
    /\ channel = [synced |-> FALSE, lost |-> {}]

\* A result stays within the bounds on pending callbacks.
WithinBounds(r) == Len(r.tasks) <= MaxTasks /\ r.resetTimers <= MaxTimers

\* The Start Scanning button.
StartScan ==
    /\ ~isScanning
    /\ Commit(startScan(St))

\* scannerInstance.start() resolves: the camera runs; a frame of the scanner
\* stopped before is no longer delivered.
StartResolved ==
    /\ startPending
    /\ Commit([updateReceiverStatus(St, "Scanning active. Waiting for Handshake QR...", FALSE)
                  EXCEPT !.isScanning = TRUE, !.startPending = FALSE,
                         !.lateDecode = FALSE])

\* scannerInstance.start() rejects (no camera, permission denied).
StartRejected ==
    /\ startPending
    /\ Commit([startScanRejected(St) EXCEPT !.startPending = FALSE])

\* The Stop Scanning button.
StopScan ==
    /\ isScanning /\ qrScanner
    /\ Commit(stopScan(St))

\* The scanner's callback with a decoded string: from the running scanner,
\* or the one frame that was being decoded when the scanner was stopped.
HandleScanResult(payload, sink) ==
    /\ isScanning \/ lateDecode
    /\ LET r == handleScanResult(
                    IF isScanning THEN St ELSE [St EXCEPT !.lateDecode = FALSE],
                    payload, sink)
       IN  WithinBounds(r) /\ Commit(r)

\* JSZip settles the promise a verifyAndDownload call is waiting for.
FinishExtraction(i, outcome, sink) ==
    /\ i \in 1..Len(tasks)
    /\ LET r == finishExtraction(St, i, outcome, sink)
       IN  WithinBounds(r) /\ Commit(r)

\* A deferred reset fires 100 ms after a download.
DeferredReset ==
    /\ resetTimers > 0
    /\ Commit(deferredReset([St EXCEPT !.resetTimers = @ - 1]))

Next ==
    \/ StartScan
    \/ StartResolved
    \/ StartRejected
    \/ StopScan
    \/ \E payload \in Packets :
           \E sink \in SinkFor(payload) : HandleScanResult(payload, sink)
    \/ \E i \in 1..MaxTasks, outcome \in ZipOutcomes, sink \in SinkOutcomes :
           FinishExtraction(i, outcome, sink)
    \/ DeferredReset

Spec == Init /\ [][Next]_vars

\* ---------------------------------------------------- the sender's actions
\* A control of the sender view can be used when the view is shown and the
\* modal (a full-screen overlay, style.css) does not cover it; a control of
\* the modal when the modal and the part that holds it are shown.
\* The file input changes.
SelectFiles(selection) ==
    /\ ~senderViewHidden /\ qrOverlayHidden /\ ~fileInputDisabled
    /\ zipping < MaxZips \/ selection.count = 0
    /\ CommitSender(handleFileSelect(Sd, selection))

\* The archive of a selection is ready.
ZipResolved(zipBuffer) ==
    /\ zipping > 0
    /\ CommitSender(handleFileSelectResolved(Sd, zipBuffer))

\* Reading or zipping a selection fails.
ZipRejected ==
    /\ zipping > 0
    /\ CommitSender(handleFileSelectRejected(Sd))

\* The error correction level select changes.
ChangeLevel(level) ==
    /\ ~senderViewHidden /\ qrOverlayHidden /\ ~fileInputDisabled
    /\ level # errorCorrectionLevel
    /\ CommitSender(updateChunkSizeDefaults([Sd EXCEPT !.errorCorrectionLevel = level]))

\* The chunk size field changes.
ChangeChunkSize(size) ==
    /\ ~senderViewHidden /\ qrOverlayHidden /\ ~fileInputDisabled
    /\ size # chunkSizeInput
    /\ CommitSender(prepareChunks([Sd EXCEPT !.chunkSizeInput = size]).s)

\* The Start Transfer button.
StartTransfer(manual, fid, qrOk) ==
    /\ ~senderViewHidden /\ qrOverlayHidden /\ ~startTransferBtnDisabled
    /\ CommitSender(startTransfer(Sd, manual, fid, qrOk))

\* The Next button of the modal.
NextChunk(qrOk) ==
    /\ ~qrOverlayHidden /\ ~qrDisplayAreaHidden
    /\ ~nextChunkBtnHidden /\ ~nextChunkBtnDisabled
    /\ CommitSender(nextChunkBtnClick(Sd, qrOk))

\* A callback scheduled with setTimeout runs.
TimerFires(t, qrOk) ==
    /\ t \in timers
    /\ LET s == [Sd EXCEPT !.timers = @ \ { t }]
       IN  CommitSender(
               CASE t.cb = "displayNextChunk" -> displayNextChunk(s, qrOk)
                 [] t.cb = "displaySpecificChunk" -> displaySpecificChunk(s, qrOk)
                 [] t.cb = "displayFinalConfirmationQR" -> displayFinalConfirmationQR(s, qrOk)
                 [] OTHER -> handlePostFinalState(s))

\* The Stop button of the modal.
StopTransfer ==
    /\ ~qrOverlayHidden
    /\ CommitSender(stopTransferBtnClick(Sd))

\* The Finish & Close button of the resend options.
FinishTransfer ==
    /\ ~qrOverlayHidden /\ ~senderPostTransferOptionsHidden
    /\ CommitSender(handleStopTransfer(Sd, TRUE))

\* The Send All Again button of the resend options.
ResendAll(manual, qrOk) ==
    /\ ~qrOverlayHidden /\ ~senderPostTransferOptionsHidden
    /\ CommitSender(handleSendAllAgain(Sd, manual, qrOk))

\* The Send Specific button of the resend options.
SendSpecific(input, manual, qrOk) ==
    /\ ~qrOverlayHidden /\ ~senderPostTransferOptionsHidden
    /\ CommitSender(handleSendSpecific(Sd, input, manual, qrOk))

\* A navigation button, or a change of the URL hash.
ShowView(viewId) ==
    CommitSender(showView(Sd, viewId))

SenderNext ==
    \/ \E selection \in Selections : SelectFiles(selection)
    \/ \E zipBuffer \in ZipBuffers : ZipResolved(zipBuffer)
    \/ ZipRejected
    \/ \E level \in SelectedLevels : ChangeLevel(level)
    \/ \E size \in TypedChunkSizes : ChangeChunkSize(size)
    \/ \E manual \in BOOLEAN, fid \in MintedFids, qrOk \in BOOLEAN :
           StartTransfer(manual, fid, qrOk)
    \/ \E qrOk \in BOOLEAN : NextChunk(qrOk)
    \/ \E t \in timers, qrOk \in BOOLEAN : TimerFires(t, qrOk)
    \/ StopTransfer
    \/ FinishTransfer
    \/ \E manual \in BOOLEAN, qrOk \in BOOLEAN : ResendAll(manual, qrOk)
    \/ \E input \in SpecificInputs, manual \in BOOLEAN, qrOk \in BOOLEAN :
           SendSpecific(input, manual, qrOk)
    \/ \E viewId \in { "sender", "receiver" } : ShowView(viewId)

SenderSpec == Init /\ [][SenderNext]_svars

\* ====================================================== the pure functions
\* Array.prototype.sort((a, b) => a - b): x put in its place in a sorted
\* list, and the sort built on it.
RECURSIVE insertSorted(_, _)
insertSorted(x, sorted) ==
    IF sorted = << >> THEN << x >>
    ELSE IF x < Head(sorted) THEN << x >> \o sorted
    ELSE << Head(sorted) >> \o insertSorted(x, Tail(sorted))

RECURSIVE sortNumbers(_)
sortNumbers(list) ==
    IF list = << >> THEN << >>
    ELSE insertSorted(list[Len(list)], sortNumbers(SubSeq(list, 1, Len(list) - 1)))

\* `${rangeStart}` or `${rangeStart}-${rangeEnd}`
rangeText(rangeStart, rangeEnd) ==
    IF rangeStart = rangeEnd THEN toString10(rangeStart)
    ELSE toString10(rangeStart) \o << "-" >> \o toString10(rangeEnd)

\* The loop of formatMissingChunks from index i (1-based) on, and the final
\* push: the ranges.
RECURSIVE formatLoop(_, _, _, _)
formatLoop(missing, i, rangeStart, rangeEnd) ==
    IF i > Len(missing) THEN << rangeText(rangeStart, rangeEnd) >>
    ELSE IF missing[i] = rangeEnd + 1
    THEN formatLoop(missing, i + 1, rangeStart, missing[i])
    ELSE << rangeText(rangeStart, rangeEnd) >>
             \o formatLoop(missing, i + 1, missing[i], missing[i])

\* Array.prototype.join(", ")
RECURSIVE joinRanges(_)
joinRanges(ranges) ==
    IF Len(ranges) = 1 THEN ranges[1]
    ELSE ranges[1] \o << ",", " " >> \o joinRanges(Tail(ranges))

\* Mutation of formatMissingChunks: every number on its own.
formatMissingChunks_NoRanges(missing) ==
    IF missing = << >> THEN << "N", "o", "n", "e" >>
    ELSE LET sorted == sortNumbers(missing)
         IN  joinRanges([i \in 1..Len(sorted) |-> toString10(sorted[i])])

\* receiver.formatMissingChunks
formatMissingChunks(missing) ==
    IF missing = << >> THEN << "N", "o", "n", "e" >>
    ELSE LET sorted == sortNumbers(missing)
         IN  joinRanges(formatLoop(sorted, 2, sorted[1], sorted[1]))

\* ------------------------------------------------------------ their inputs
\* An encoded stream of n characters, all different.
Stream(n) == SubSeq(B64Chars, 1, n)

\* Lists without a repeated number: the ascending ones the receiver builds,
\* and short ones in any order.
NumberLists ==
    { SortedSeq(set) : set \in SUBSET (1..MaxNumber) }
    \cup { l \in UNION { [1..n -> 1..MaxNumber] : n \in 1..MaxListLen } :
             \A i, j \in 1..Len(l) : i # j => l[i] # l[j] }

\* Byte buffers: short ones of small and large bytes, an archive, and runs
\* of the largest byte up to and beyond the sum 65535.
ByteBuffers ==
    { << >> }
    \cup UNION { [1..n -> { 0, 1, 128, 255 }] : n \in 1..MaxListLen }
    \cup { ArchiveBytes(MaxBufferLen), Repeat(255, 257), Repeat(255, 258),
           Repeat(255, 2 * 257 + MaxNumber) }

Calls ==
    { [fn |-> "prepareChunks", data |-> Stream(n), size |-> k] :
        n \in 0..MaxNumber, k \in 1..(MaxNumber + 1) }
    \cup { [fn |-> "formatMissingChunks", missing |-> l] : l \in NumberLists }
    \cup { [fn |-> "calculateChecksum", buffer |-> b] : b \in ByteBuffers }
    \cup { [fn |-> "parseChunkInput",
            missing |-> [i \in 1..Cardinality(set) |-> SortedSeq(set)[i] + shift],
            maxChunk |-> MaxNumber + shift + extra] :
              set \in SUBSET (1..MaxNumber), shift \in { 0, 2, 95 }, extra \in { 0, 1 } }
    \cup { [fn |-> "prepareChunks.size", level |-> l, target |-> t, fid |-> f] :
              l \in DOMAIN QR_CAPACITY_ESTIMATES,
              t \in { None } \cup { Some(n) : n \in
                        { MIN_CHUNK_SIZE - 1, MIN_CHUNK_SIZE, MIN_CHUNK_SIZE + 1 }
                        \cup { QR_CAPACITY_ESTIMATES[k] - QR_CHUNK_SIZE_BUFFER - o :
                                 k \in DOMAIN QR_CAPACITY_ESTIMATES,
                                 o \in { 0, 77, 78, 79, 86, 87, 88 } } },
              f \in { "" } \cup MintedFids }

\* --------------------------------------------------------- their actions
\* One function is to be applied to arguments drawn from Calls.
UtilInit ==
    /\ ReceiverConstructed
    /\ SenderConstructed
    /\ call \in { Some(c) : c \in Calls }
    /\ result = None
    /\ channel = [synced |-> FALSE, lost |-> {}]

PrepareChunks ==
    /\ Val(call).fn = "prepareChunks"
    /\ result = None
    /\ result' = Some(splitLoop(Val(call).data, Val(call).size, 0))
    /\ UNCHANGED << call, vars, svars, channel >>

FormatMissingChunks ==
    /\ Val(call).fn = "formatMissingChunks"
    /\ result = None
    /\ result' = Some(formatMissingChunks(Val(call).missing))
    /\ UNCHANGED << call, vars, svars, channel >>

CalculateChecksum ==
    /\ Val(call).fn = "calculateChecksum"
    /\ result = None
    /\ result' = Some(calculateChecksum(Val(call).buffer))
    /\ UNCHANGED << call, vars, svars, channel >>

\* The missing list the receiver shows is typed into the Send Specific
\* field of a sender whose archive has maxChunk chunks.
ParseChunkInput ==
    /\ Val(call).fn = "parseChunkInput"
    /\ result = None
    /\ result' = Some(parseChunkInput(formatMissingChunks(Val(call).missing),
                                      Val(call).maxChunk))
    /\ UNCHANGED << call, vars, svars, channel >>

\* The sender with an archive loaded whose encoded length is the largest
\* capacity estimate, and with the level, the chunk size field and the
\* identifier of the call c.
Loaded(c) ==
    LET buffer == ArchiveBytes((3 * QR_CAPACITY_ESTIMATES["L"]) \div 4)
    IN  [Sd EXCEPT !.filesToSend = 1,
                   !.dataToSendBuffer = Some(buffer),
                   !.base64Data = arrayBufferToBase64(buffer),
                   !.dataToSendChecksum = calculateChecksum(buffer),
                   !.senderTransferPhase = "ready",
                   !.startTransferBtnDisabled = FALSE,
                   !.errorCorrectionLevel = c.level,
                   !.chunkSizeInput = c.target,
                   !.transferFileId = c.fid]

\* prepareChunks sizes the chunks of the loaded archive, and Start Transfer
\* is pressed: the value returned, the chunks, and the phase after the start.
CapacityPlanning ==
    /\ Val(call).fn = "prepareChunks.size"
    /\ result = None
    /\ LET p == prepareChunks(Loaded(Val(call)))
       IN  result' = Some([ok |-> p.ok,
                           chunks |-> p.s.chunks,
                           phase |-> startTransfer(Loaded(Val(call)), FALSE,
                                                   CHOOSE f \in MintedFids : TRUE,
                                                   TRUE).senderTransferPhase])
    /\ UNCHANGED << call, vars, svars, channel >>

UtilNext ==
    \/ PrepareChunks
    \/ FormatMissingChunks
    \/ CalculateChecksum
    \/ ParseChunkInput
    \/ CapacityPlanning

UtilSpec == UtilInit /\ [][UtilNext]_uvars



\* ======================================================= sender and receiver
\* The two machines joined by the optical channel.  A step of the sender
\* whose result is s: when it shows a packet, the channel hands the packet to
\* the receiver's scan callback in the same step (delivered, and the
\* receiver's scanner runs), or the packet is lost.  The channel records
\* whether the Handshake that began the sequence was taken by a receiver in
\* waiting_handshake, and which Data packets (by seq) and Final (0) of the
\* transfer were shown but have not been taken.
Transmit(s, delivered, sink) ==
    LET emitted == s.sent # sent /\ s.sent # << >>
        p == s.sent[Len(s.sent)]
        taken == emitted /\ delivered /\ isScanning
        place == IF p.typ = "d" THEN p.seq ELSE 0
    IN  /\ SenderAssign(s)
        /\ IF taken
           THEN LET r == handleScanResult(St, p, sink)
                IN  sink \in SinkFor(p) /\ WithinBounds(r) /\ ReceiverAssign(r)
           ELSE (emitted \/ delivered) /\ sink = << TRUE, TRUE >> /\ UNCHANGED vars
        /\ channel' =
               IF ~emitted THEN channel
               ELSE IF p.typ = "h"
               THEN [synced |-> taken /\ receiverState = "waiting_handshake",
                     lost |-> {}]
               ELSE [channel EXCEPT !.lost = IF taken THEN @ \ { place }
                                             ELSE @ \cup { place }]
        /\ UNCHANGED uvars

\* The sender's user loads one file or folder at a time, whose archive has
\* more than one chunk, starts automatic sequences, resends all, resends
\* the list the receiver shows as missing, and closes the modal; the
\* callbacks run; every packet shown goes through the channel.  The
\* receiver's user starts a scan only when no reception is under way.
LinkNext ==
    \/ \E selection \in Selections :
           /\ zipping = 0
           /\ selection.count > 0
           /\ Len(Val(selection.name)) <= MaxNumber
           /\ SelectFiles(selection)
    \/ \E zipBuffer \in ZipBuffers :
           Len(zipBuffer) \in 1..(MaxBufferLen - 1) /\ ZipResolved(zipBuffer)
    \/ chunkSizeInput # Some(MIN_CHUNK_SIZE) /\ ChangeChunkSize(Some(MIN_CHUNK_SIZE))
    \/ FinishTransfer
    \/ /\ ~senderViewHidden /\ qrOverlayHidden /\ ~startTransferBtnDisabled
       /\ \E fid \in MintedFids \ { transferFileId } :
              \E delivered \in BOOLEAN, sink \in SinkOutcomes :
                  Transmit(startTransfer(Sd, FALSE, fid, TRUE), delivered, sink)
    \/ \E t \in timers : \E delivered \in BOOLEAN, sink \in SinkOutcomes :
           LET s == [Sd EXCEPT !.timers = @ \ { t }]
           IN  Transmit(
                   CASE t.cb = "displayNextChunk" -> displayNextChunk(s, TRUE)
                     [] t.cb = "displaySpecificChunk" -> displaySpecificChunk(s, TRUE)
                     [] t.cb = "displayFinalConfirmationQR" ->
                            displayFinalConfirmationQR(s, TRUE)
                     [] OTHER -> handlePostFinalState(s),
                   delivered, sink)
    \/ /\ ~qrOverlayHidden /\ ~senderPostTransferOptionsHidden
       /\ \E delivered \in BOOLEAN, sink \in SinkOutcomes :
              Transmit(handleSendAllAgain(Sd, FALSE, TRUE), delivered, sink)
    \/ /\ ~qrOverlayHidden /\ ~senderPostTransferOptionsHidden
       /\ receiverState = "waiting_missing"
       /\ \E delivered \in BOOLEAN, sink \in SinkOutcomes :
              Transmit(handleSendSpecific(Sd, formatMissingChunks(SortedSeq(MissingChunks(St))),
                                          FALSE, TRUE),
                       delivered, sink)
    \/ receiverState \in { "idle", "complete", "error" } /\ StartScan
    \/ StartResolved
    \/ \E i \in 1..MaxTasks, outcome \in ZipOutcomes, sink \in SinkOutcomes :
           FinishExtraction(i, outcome, sink)
    \/ DeferredReset

LinkSpec == Init /\ [][LinkNext]_<< vars, svars, channel >>

\* ================================================================ claims
\* The session the receiver has adopted, and the bytes its chunks decode to.
SessionAdopted == expectedFileId # None /\ expectedTotalChunks # None

AllChunksPresent ==
    \A i \in 1..Val(expectedTotalChunks) : i \in DOMAIN receivedChunksMap

Reconstruction ==
    base64ToArrayBuffer(
        joinChunks(receivedChunksMap, 1, Val(expectedTotalChunks)))

\* The Final packet p passes the four conditions of completion in the
\* current state.
Completes(p) ==
    /\ SessionAdopted
    /\ expectedDataSize # None
    /\ p.typ = "f" /\ Some(p.fid) = expectedFileId
    /\ AllChunksPresent
    /\ Len(Reconstruction) = Val(expectedDataSize)
    /\ calculateChecksum(Reconstruction) = p.chk

\* This step handles the packet p.
Handles(p) == \E sink \in SinkFor(p) : HandleScanResult(p, sink)

\* This step resumes a suspended verifyAndDownload call.
Resumes == Len(tasks') < Len(tasks)

FinalOnCompleteStore(p) ==
    /\ receiverState \in IntakeStates
    /\ SessionAdopted /\ expectedDataSize # None
    /\ p \in FinalPackets /\ Some(p.fid) = expectedFileId
    /\ AllChunksPresent

\* The reconstruction has the declared size and the checksum of p.
Matches(p) ==
    /\ Len(Reconstruction) = Val(expectedDataSize)
    /\ calculateChecksum(Reconstruction) = p.chk

\* The archive download of the reconstruction under the session's name.
ArchiveDownload ==
    << [ kind |-> "archive", buffer |-> Reconstruction,
         filename |-> Val(expectedArchiveName) ] >>

\* The download sink accepted a download of a resumed call.
SinkAccepts(outcome, sink) == sink[1] \/ (outcome # "ziperror" /\ sink[2])

\* C2 as claimed: a Final packet on a complete store ends in "complete"
\* (at once, or when the suspended extraction resumes) if and only if the
\* reconstruction in sequence order has the declared size and the packet's
\* checksum, and in "error" otherwise.
C2_Original ==
    [][ /\ \A p \in FinalPackets :
               FinalOnCompleteStore(p) /\ Handles(p)
                   => IF Matches(p)
                      THEN \/ receiverState' = "complete"
                           \/ Len(tasks') > Len(tasks)
                      ELSE receiverState' = "error"
        /\ Resumes => receiverState' = "complete"
      ]_vars

\* C2 amended: as C2_Original, provided the download sink accepts the file;
\* when verification passes and the sink fails, the receiver ends in "error"
\* without a download.  The buffer downloaded or suspended is the
\* reconstruction in sequence order; a mismatch downloads and suspends
\* nothing; a suspended call that resumes ends in "complete" with its buffer
\* downloaded if the sink accepts it, and in "error" if not.
C2_RoundTrip ==
    /\ \A p \in FinalPackets : \A sink \in SinkFor(p) :
           FinalOnCompleteStore(p)
               => LET r == handleScanResult(St, p, sink)
                  IN  IF ~Matches(p)
                      THEN /\ r.receiverState = "error"
                           /\ r.downloaded = << >>
                           /\ r.tasks = tasks
                      ELSE IF expectedOriginalFilename # None
                      THEN /\ r.receiverState = receiverState
                           /\ r.downloaded = << >>
                           /\ Len(r.tasks) = Len(tasks) + 1
                           /\ r.tasks[Len(r.tasks)].buffer = Reconstruction
                      ELSE IF sink[1]
                      THEN /\ r.receiverState = "complete"
                           /\ r.downloaded = ArchiveDownload
                           /\ r.tasks = tasks
                      ELSE /\ r.receiverState = "error"
                           /\ r.downloaded = << >>
                           /\ r.tasks = tasks
    /\ \A i \in 1..Len(tasks), outcome \in ZipOutcomes, sink \in SinkOutcomes :
           LET r == finishExtraction(St, i, outcome, sink)
           IN  IF SinkAccepts(outcome, sink)
               THEN /\ r.receiverState = "complete"
                    /\ Len(r.downloaded) = 1
                    /\ r.downloaded[1].buffer = tasks[i].buffer
               ELSE /\ r.receiverState = "error"
                    /\ r.downloaded = << >>

\* C2 witness: a two-chunk session, one chunk of which was also delivered
\* twice, has been verified and downloaded.
C2_Witness ==
    /\ receiverState = "complete"
    /\ Len(downloaded) = 1 /\ downloaded[1].buffer = << 1 >>
    /\ expectedTotalChunks = Some(2)
    /\ receiverDebug = "Dup"

\* The receiver handles one scanned packet (the sink plays no part for
\* a Data packet).
Deliver(r, p) == handleScanResult(r, p, << TRUE, TRUE >>)

\* The ChunkStore and its counter.
Store(r) == << r.receivedChunksMap, r.receivedChunkCount >>

\* The Data packets that carry the fileId of the adopted session, whatever
\* their sequence number and slice.
SessionData == { p \in DataPackets : Some(p.fid) = expectedFileId }

\* C3: in every reachable state of an intake phase, delivering two Data
\* packets of the session with different sequence numbers in either order
\* leaves the same ChunkStore and the same receivedChunkCount, and
\* delivering a packet twice leaves what delivering it once leaves.  Every delivery order and
\* duplication of a set of Data packets is made of such exchanges and
\* repetitions, so that its result is that of the in-order delivery of each
\* sequence number once.
C3_OrderIndependent ==
    [](receiverState \in IntakeStates
        => \A p \in SessionData :
               LET r1 == Deliver(St, p)
               IN  /\ Store(Deliver(r1, p)) = Store(r1)
                   /\ \A q \in SessionData :
                          p.seq < q.seq
                              => Store(Deliver(r1, q)) = Store(Deliver(Deliver(St, q), p)))

\* C3 witness: both chunks of a two-chunk session are stored and the last
\* packet handled was a duplicate.
C3_Witness ==
    /\ receiverState = "waiting_final"
    /\ expectedTotalChunks = Some(2)
    /\ receivedChunksMap = (1 :> << "A", "Q" >>) @@ (2 :> << "=", "=" >>)
    /\ receivedChunkCount = 2
    /\ receiverDebug = "Dup"

\* C4: once a session is adopted, the keys of the ChunkStore lie in
\* 1..total, receivedChunkCount is the number of keys, and it is at most
\* total.
C4_StoreInvariant ==
    expectedTotalChunks # None
        => /\ DOMAIN receivedChunksMap \subseteq 1..Val(expectedTotalChunks)
           /\ receivedChunkCount = Cardinality(DOMAIN receivedChunksMap)
           /\ receivedChunkCount <= Val(expectedTotalChunks)

\* C4 witness: a Data packet with a sequence number beyond total has been
\* rejected while one chunk of two is stored.
C4_Witness ==
    /\ receiverState = "receiving_data"
    /\ expectedTotalChunks = Some(2)
    /\ DOMAIN receivedChunksMap = { 2 }
    /\ receivedChunkCount = 1
    /\ receiverDebug = "DChunk Field Err"

\* What a session is: its phase, its metadata and its ChunkStore.
session ==
    << receiverState, expectedFileId, expectedTotalChunks, expectedArchiveName,
       expectedDataSize, expectedIsZip, expectedOriginalFilename,
       receivedChunksMap, receivedChunkCount >>

\* The same of a handler's result.
SessionOf(r) ==
    << r.receiverState, r.expectedFileId, r.expectedTotalChunks,
       r.expectedArchiveName, r.expectedDataSize, r.expectedIsZip,
       r.expectedOriginalFilename, r.receivedChunksMap, r.receivedChunkCount >>

\* A step that starts no verification and no download.
NoVerification == downloaded' = << >> /\ tasks' = tasks

\* The same of a handler's result.
NoVerificationIn(r) == r.downloaded = << >> /\ r.tasks = tasks

\* C5: once a session is adopted, handling a Data or a Final packet (of the
\* protocol version) with another fileId leaves the phase, the session
\* metadata and the ChunkStore as they are, in every phase, and starts no
\* verification.
C5_ForeignPacketIgnored ==
    SessionAdopted
        => \A p \in DataPackets \cup FinalPackets : \A sink \in SinkFor(p) :
               Some(p.fid) # expectedFileId
                   => LET r == handleScanResult(St, p, sink)
                      IN  SessionOf(r) = session /\ NoVerificationIn(r)

\* C5 witness: a packet of another session has been ignored while one chunk
\* of two is stored.
C5_Witness ==
    /\ receiverState = "receiving_data"
    /\ expectedFileId = Some("A")
    /\ expectedTotalChunks = Some(2)
    /\ receivedChunkCount = 1
    /\ receiverDebug = "FID Err"

\* Handling a well-formed packet of another version in an intake phase ends
\* in "error" with the scanner stopped and the session untouched.
VersionMismatchStops ==
    receiverState \in IntakeStates
        => \A p \in OtherVersion : \A sink \in SinkFor(p) :
               LET r == handleScanResult(St, p, sink)
               IN  /\ r.receiverState = "error"
                   /\ ~r.isScanning
                   /\ r.receiverStatus = "Incompatible protocol version. Stopping."
                   /\ r.expectedFileId = expectedFileId
                   /\ r.expectedTotalChunks = expectedTotalChunks
                   /\ Store(r) = Store(St)
                   /\ NoVerificationIn(r)

\* Outside the intake phases a scanned packet changes nothing.
IntakeHalted ==
    receiverState \notin IntakeStates
        => \A p \in Packets : \A sink \in SinkFor(p) :
               handleScanResult(St, p, sink) = St

\* C6: in an intake phase a well-formed packet of another version, whatever
\* its type and fileId, puts the receiver in "error" and stops the scanner;
\* outside the intake phases a scanned packet changes nothing; and only the
\* Start Scanning button leads from a phase outside intake to an intake
\* phase.
C6_VersionMismatchHalts ==
    /\ [](VersionMismatchStops /\ IntakeHalted)
    /\ [][ (receiverState \notin IntakeStates /\ receiverState' \in IntakeStates)
               => StartScan ]_vars

\* C6 witness: a packet of another version has stopped a transfer with one
\* chunk stored, and the frame the stopped scanner still delivered is gone.
C6_Witness ==
    /\ receiverState = "error"
    /\ receiverStatus = "Incompatible protocol version. Stopping."
    /\ ~isScanning /\ ~lateDecode /\ ~startPending
    /\ receivedChunkCount = 1

\* A Final packet of the adopted session, with a checksum, arrives while a
\* chunk is missing.
FinalOnIncompleteStore(p) ==
    /\ receiverState \in IntakeStates
    /\ SessionAdopted
    /\ p \in FinalPackets /\ Some(p.fid) = expectedFileId /\ p.chk # << >>
    /\ ~AllChunksPresent

\* After the step every missing Data packet of the session is still stored.
IntakeContinues ==
    \A q \in DataPackets :
        (/\ Some(q.fid) = expectedFileId' /\ q.dat # << >>
         /\ q.seq \in 1..Val(expectedTotalChunks') /\ q.seq \notin DOMAIN receivedChunksMap')
            => LET after == Deliver([St EXCEPT !.receiverState = receiverState',
                                               !.receivedChunksMap = receivedChunksMap',
                                               !.receivedChunkCount = receivedChunkCount'], q)
               IN  after.receivedChunksMap = MapSet(receivedChunksMap', q.seq, q.dat)

\* C7 as claimed: the step that handles a Final packet of the session while
\* a chunk is missing ends in "waiting_missing" with the ChunkStore and the
\* session metadata unchanged, and the missing Data packets are still
\* stored afterwards.
C7_Original ==
    [][ \A p \in FinalPackets :
            (FinalOnIncompleteStore(p) /\ Handles(p))
                => /\ receiverState' = "waiting_missing"
                   /\ UNCHANGED << expectedFileId, expectedTotalChunks,
                                   expectedArchiveName, expectedDataSize,
                                   expectedIsZip, expectedOriginalFilename,
                                   receivedChunksMap, receivedChunkCount >>
                   /\ NoVerification
                   /\ IntakeContinues
      ]_vars

\* C7 while the scanner runs: the statement of C7_Original for the steps
\* taken with isScanning true; the scanner keeps running.
C7_WhileScanning ==
    [][ \A p \in FinalPackets :
            (FinalOnIncompleteStore(p) /\ isScanning /\ Handles(p))
                => /\ receiverState' = "waiting_missing"
                   /\ UNCHANGED << expectedFileId, expectedTotalChunks,
                                   expectedArchiveName, expectedDataSize,
                                   expectedIsZip, expectedOriginalFilename,
                                   receivedChunksMap, receivedChunkCount >>
                   /\ NoVerification
                   /\ IntakeContinues
                   /\ isScanning'
      ]_vars

\* The error texts of verifyAndDownload's checks.
VerificationErrors ==
    { "Internal Error: Missing file info for verification.",
      "Internal Error: Chunk count mismatch.",
      "Error during data assembly",
      "Error decoding base64 data",
      "Verification FAILED: Size mismatch",
      "Verification FAILED: Checksum mismatch!",
      "Verification OK, but failed to trigger download" }

\* A step in which verifyAndDownload is entered: it downloads, suspends at
\* the extraction, or fails with one of its errors.
VerificationStarts ==
    /\ ~Resumes
    /\ \/ downloaded' # << >>
       \/ Len(tasks') > Len(tasks)
       \/ receiverState' = "complete" /\ receiverState # "complete"
       \/ /\ receiverState \in IntakeStates /\ receiverState' = "error"
          /\ receiverStatus' \in VerificationErrors

\* Handling a Data packet in an intake phase starts no verification and
\* leaves the receiver in an intake phase; in "waiting_missing" it ends in
\* "waiting_final" exactly when it stores the last missing chunk.
DataNeverVerifies ==
    receiverState \in IntakeStates
        => \A p \in DataPackets :
               LET r == Deliver(St, p)
               IN  /\ r.receiverState \in IntakeStates
                   /\ NoVerificationIn(r)
                   /\ receiverState = "waiting_missing"
                          => r.receiverState =
                                 IF \A i \in 1..Val(expectedTotalChunks) :
                                        i \in DOMAIN r.receivedChunksMap
                                 THEN "waiting_final" ELSE "waiting_missing"

\* C8: handling a Data packet starts no verification, also when it stores
\* the last chunk; the last missing chunk in "waiting_missing" leads to
\* "waiting_final"; and a step in which verification starts handles a Final
\* packet of the session, so that completion needs the Final packet to be
\* seen again.
C8_FinalStartsVerification ==
    /\ []DataNeverVerifies
    /\ [][ VerificationStarts
               => \E p \in FinalPackets :
                      /\ Some(p.fid) = expectedFileId /\ p.chk # << >>
                      /\ Handles(p) ]_vars

\* C8 witness: the last missing chunk has arrived in "waiting_missing"; the
\* receiver waits for the Final packet again and has downloaded nothing.
C8_Witness ==
    /\ receiverState = "waiting_final"
    /\ receiverStatus = "All missing chunks received! Waiting for Final QR again..."
    /\ expectedTotalChunks = Some(2)
    /\ receivedChunkCount = 2
    /\ downloaded = << >> /\ tasks = << >>

\* The receiver is in "error" after a failed size or checksum verification.
VerificationFailed ==
    /\ receiverState = "error"
    /\ receiverStatus \in { "Verification FAILED: Size mismatch",
                            "Verification FAILED: Checksum mismatch!" }

\* C9: a Final packet whose size or checksum verification fails ends in
\* "error" with the scanner stopped and nothing downloaded or suspended; in
\* that state no scanned packet changes anything, so that verification is
\* not retried; and the state is left for an intake phase only by the Start
\* Scanning button.
C9_MismatchIsFinal ==
    /\ [] /\ \A p \in FinalPackets : \A sink \in SinkFor(p) :
                 (FinalOnCompleteStore(p) /\ p.chk # << >> /\ ~Matches(p))
                     => LET r == handleScanResult(St, p, sink)
                        IN  /\ r.receiverState = "error"
                            /\ r.receiverStatus \in VerificationErrors
                            /\ ~r.isScanning
                            /\ NoVerificationIn(r)
          /\ VerificationFailed
                 => \A p \in Packets : \A sink \in SinkFor(p) :
                        handleScanResult(St, p, sink) = St
    /\ [][ (VerificationFailed /\ receiverState' \in IntakeStates)
               => StartScan ]_vars

\* C9 witness: a checksum mismatch on a complete two-chunk store, after
\* which the frame the stopped scanner still delivered has been ignored.
C9_Witness ==
    /\ receiverState = "error"
    /\ receiverStatus = "Verification FAILED: Checksum mismatch!"
    /\ expectedTotalChunks = Some(2) /\ receivedChunkCount = 2
    /\ ~isScanning /\ ~lateDecode
    /\ downloaded = << >> /\ tasks = << >>

\* The verification of the step passed: a download, a suspended extraction,
\* or a sink that failed after the checks.
VerificationPassedIn(r) ==
    \/ r.receiverState = "complete" /\ Len(r.downloaded) = 1
                                    /\ r.downloaded[1].buffer = << >>
    \/ Len(r.tasks) = Len(tasks) + 1 /\ r.tasks[Len(r.tasks)].buffer = << >>
    \/ r.receiverStatus = "Verification OK, but failed to trigger download"

\* C10: handling a Handshake with total 0 in "waiting_handshake" ends in
\* "waiting_final" with an empty ChunkStore; and with total 0 a Final packet
\* of the session is verified in the step that handles it, never waited
\* on: verification passes exactly when the packet's checksum is that of the
\* empty buffer and the declared size is 0, and ends in "error" otherwise.
C10_EmptyTransfer ==
    /\ receiverState = "waiting_handshake"
           => \A h \in Handshakes :
                  h.tot = 0
                      => LET r == handleScanResult(St, h, << TRUE, TRUE >>)
                         IN  /\ r.receiverState = "waiting_final"
                             /\ r.expectedTotalChunks = Some(0)
                             /\ Store(r) = << EmptyMap, 0 >>
    /\ (receiverState \in IntakeStates /\ SessionAdopted /\ expectedTotalChunks = Some(0))
           => /\ receiverState = "waiting_final"
              /\ \A p \in FinalPackets : \A sink \in SinkFor(p) :
                     Some(p.fid) = expectedFileId
                         => LET r == handleScanResult(St, p, sink)
                            IN  IF /\ p.chk = calculateChecksum(<< >>)
                                   /\ expectedDataSize = Some(0)
                                THEN VerificationPassedIn(r)
                                ELSE /\ r.receiverState = "error"
                                     /\ NoVerificationIn(r)

\* C10 witness: a transfer of zero chunks has been verified and the empty
\* buffer downloaded.
C10_Witness ==
    /\ receiverState = "complete"
    /\ expectedTotalChunks = Some(0)
    /\ expectedDataSize = Some(0)
    /\ Len(downloaded) = 1 /\ downloaded[1].buffer = << >>

\* ------------------------------------------------------------------ C11
\* The k-th packet of a main sequence over the prepared chunks, k from 0:
\* Handshake, Data 1 .. Data N, Final.
MainPacket(k) ==
    IF k = 0
    THEN [typ |-> "h", seq |-> 0, dat |-> << >>]
    ELSE IF k <= Len(chunks)
    THEN [typ |-> "d", seq |-> k, dat |-> chunks[k]]
    ELSE [typ |-> "f", seq |-> 0, dat |-> << >>]

\* What a displayed packet says about its place in the sequence.
Place(p) == [typ |-> p.typ, seq |-> p.seq, dat |-> p.dat]

\* The packets displayed since the sequence began are the first n of the
\* main sequence.
MainPrefix(n) ==
    /\ Len(sent) = n
    /\ \A i \in 1..n : Place(sent[i]) = MainPacket(i - 1)

\* C11: while a main sequence runs the packets displayed are Handshake,
\* Data 1, Data 2, ... in order, one for each advance of the cursor and none
\* skipped or repeated; a step that carries the sequence on (it is not
\* stopped, and no other archive replaces the one being sent) displays at
\* most one packet, the next one; the phase becomes final_qr_displayed in
\* the very step that displays Final, after Handshake and all N Data
\* packets.
C11_MainSequenceInOrder ==
    /\ [](senderTransferPhase = "transferring" =>
            /\ totalDataChunks = Len(chunks)
            /\ currentChunkIndex \in 0..totalDataChunks
            /\ MainPrefix(currentChunkIndex + 1))
    /\ [][(/\ senderTransferPhase = "transferring"
            /\ senderTransferPhase' \in { "transferring", "final_qr_displayed" }
            /\ ~qrOverlayHidden') =>
            /\ chunks' = chunks
            /\ \/ sent' = sent /\ senderTransferPhase' = "transferring"
               \/ /\ Len(sent') = Len(sent) + 1
                  /\ SubSeq(sent', 1, Len(sent)) = sent
                  /\ Place(sent'[Len(sent')]) = MainPacket(Len(sent))
                  /\ currentChunkIndex' = currentChunkIndex + 1
                  /\ (senderTransferPhase' = "final_qr_displayed")
                        <=> (sent'[Len(sent')].typ = "f")
                  /\ (senderTransferPhase' = "final_qr_displayed")
                        => Len(sent') = Len(chunks) + 2]_svars

\* C11 witness: a main sequence of three Data packets has just displayed
\* its Final.
C11_Witness ==
    /\ senderTransferPhase = "final_qr_displayed"
    /\ specificChunksToSend = << >>
    /\ Len(chunks) = 3
    /\ Len(sent) = 5
    /\ \A i \in 1..5 : Place(sent[i]) = MainPacket(i - 1)

\* ------------------------------------------------------------------ C12
\* C12: whenever a main sequence runs, it was begun with the cursor before
\* the Handshake (so that the cursor counts the packets displayed since) and
\* totalSteps is 1 + totalDataChunks + 1, totalDataChunks being the number
\* of Data packets the sequence displays, the number of prepared chunks.
C12_Original ==
    senderTransferPhase = "transferring" =>
        /\ Len(sent) = currentChunkIndex + 1
        /\ totalDataChunks = Len(chunks)
        /\ totalStepsInCurrentSequence = 1 + totalDataChunks + 1

\* ------------------------------------------------------------------ C13
\* The phases of a transfer that has been started and not stopped.
Running == senderTransferPhase \in ActivePhases \cup { "post_final" }

\* C13 as claimed: every packet displayed carries the sender's current
\* identifier, which is not empty; while a started transfer is on display the
\* identifier is one minted by startTransfer, and no step that leaves the
\* transfer running - an advance of the initial sequence, Send All Again,
\* Send Specific and their advances - changes it.
C13_Original ==
    /\ [](/\ \A i \in 1..Len(sent) :
                sent[i].fid = transferFileId /\ sent[i].fid # ""
          /\ (Running /\ ~qrOverlayHidden) => transferFileId \in MintedFids)
    /\ [][(Running /\ ~qrOverlayHidden /\ Running' /\ ~qrOverlayHidden') =>
              transferFileId' = transferFileId]_svars

\* ------------------------------------------------------------------ C14
\* The numbers of a list.
Members(list) == { list[i] : i \in 1..Len(list) }

\* A list of numbers in ascending order without a repeated number.
Ascending(list) == \A i \in 1..(Len(list) - 1) : list[i] < list[i + 1]

\* The first n packets displayed are the Data packets of the first n
\* numbers of the list being resent, in the order of the list.
SpecificPrefix(n) ==
    \A i \in 1..n :
        /\ sent[i].typ = "d"
        /\ sent[i].seq = specificChunksToSend[i]
        /\ sent[i].dat = chunks[specificChunksToSend[i]]

\* A specific resend is in its closing phase, over the archive whose main
\* sequence was completed.
SpecificClosing ==
    /\ senderTransferPhase = "final_qr_displayed"
    /\ specificChunksToSend # << >>
    /\ currentChunkIndex > totalDataChunks
    /\ ~qrOverlayHidden

\* C14: Send Specific, used in post_final with a typed list of numbers in
\* 1..N in any order and with repetitions, keeps the ascending list of the
\* distinct numbers typed and displays the Data packet of its first number;
\* while the resend runs the packets displayed are exactly the Data packets
\* of the first numbers of that list, one for each advance; the phase leaves
\* sending_specific only by displaying Final after the Data packet of the
\* last number; the display then holds those Data packets and one Final and
\* nothing else, and the next advance leads to post_final.  (Steps that end
\* the transfer - a stop, or another archive finishing its zip - are not
\* advances.)
C14_ResendSpecific ==
    /\ [](senderTransferPhase = "sending_specific" =>
            /\ specificChunksToSend # << >>
            /\ Ascending(specificChunksToSend)
            /\ Members(specificChunksToSend) \subseteq 1..Len(chunks)
            /\ specificChunkSendIndex \in 1..Len(specificChunksToSend)
            /\ Len(sent) = specificChunkSendIndex
            /\ SpecificPrefix(Len(sent)))
    /\ [](SpecificClosing =>
            /\ Ascending(specificChunksToSend)
            /\ Len(sent) = Len(specificChunksToSend) + 1
            /\ SpecificPrefix(Len(specificChunksToSend))
            /\ sent[Len(sent)].typ = "f")
    /\ [][\A l \in TypedLists :
            (/\ senderTransferPhase = "post_final"
             /\ ~qrOverlayHidden'
             /\ Members(l) \subseteq 1..totalDataChunks
             /\ SendSpecific(TypedList(l), isCurrentSequenceManual', TRUE)) =>
                /\ senderTransferPhase' = "sending_specific"
                /\ Ascending(specificChunksToSend')
                /\ Members(specificChunksToSend') = Members(l)
                /\ Len(sent') = 1]_svars
    /\ [][(/\ senderTransferPhase = "sending_specific"
           /\ senderTransferPhase' \in { "transferring", "final_qr_displayed", "post_final" }
           /\ ~qrOverlayHidden') =>
                /\ senderTransferPhase' = "final_qr_displayed"
                /\ specificChunkSendIndex = Len(specificChunksToSend)
                /\ Len(sent') = Len(sent) + 1]_svars
    /\ [][(/\ SpecificClosing
           /\ senderTransferPhase' \in { "transferring", "sending_specific", "post_final" }
           /\ ~qrOverlayHidden') =>
                /\ senderTransferPhase' = "post_final"
                /\ sent' = sent]_svars

\* C14 witness: a resend of chunks 1 and 3 of three - what "3,3,1" asks
\* for - has displayed Data 1, Data 3 and Final and is back in post_final.
C14_Witness ==
    /\ senderTransferPhase = "post_final"
    /\ Len(chunks) = 3
    /\ specificChunksToSend = << 1, 3 >>
    /\ Len(sent) = 3
    /\ sent[1].typ = "d" /\ sent[1].seq = 1
    /\ sent[2].typ = "d" /\ sent[2].seq = 3
    /\ sent[3].typ = "f"

\* ------------------------------------------------------------------ C15
\* A step that stops the sender explicitly: the Stop button of the modal,
\* Finish & Close, or leaving the view while a transfer is under way.
ExplicitStop ==
    \/ StopTransfer
    \/ FinishTransfer
    \/ /\ senderTransferPhase \notin { "idle", "ready" }
       /\ \E viewId \in { "sender", "receiver" } : ShowView(viewId)

\* A step that starts a transfer, or loads files: a selection or its end.
StartOrLoad ==
    \/ \E selection \in Selections : SelectFiles(selection)
    \/ ZipRejected
    \/ \E zipBuffer \in ZipBuffers : ZipResolved(zipBuffer)
    \/ \E manual \in BOOLEAN, fid \in MintedFids, qrOk \in BOOLEAN :
           StartTransfer(manual, fid, qrOk)

\* The sender is stopped: the modal is closed, nothing is on display, no
\* callback is scheduled and no timer handle is kept.
Stopped ==
    /\ senderTransferPhase \in { "idle", "ready" }
    /\ qrOverlayHidden
    /\ sent = << >>
    /\ timers = {}
    /\ transferTimer = None

\* C15: the only callback ever pending is the one whose handle the sender
\* keeps; an explicit stop, in whatever phase, leaves the sender stopped
\* with no callback pending; from then on, until a transfer is started (or
\* files are loaded), every step leaves it stopped in the same phase with
\* nothing displayed; and the callbacks guarded by the phase -
\* displayNextChunk, displaySpecificChunk, handlePostFinalState - would
\* change nothing if one ran in a stopped state.
C15_StopIsQuiet ==
    /\ [](/\ \A t \in timers : transferTimer = Some(t.id)
          /\ Stopped =>
               /\ \A qrOk \in BOOLEAN :
                     /\ displayNextChunk(Sd, qrOk) = Sd
                     /\ displaySpecificChunk(Sd, qrOk) = Sd
               /\ handlePostFinalState(Sd) = Sd)
    /\ [][ExplicitStop => Stopped']_svars
    /\ [][Stopped => \/ Stopped' /\ senderTransferPhase' = senderTransferPhase
                     \/ StartOrLoad]_svars

\* C15 witness: an automatic transfer was stopped with its archive kept:
\* the chunks are gone, the cursor is back before the Handshake, and no
\* callback is pending.
C15_Witness ==
    /\ Stopped
    /\ senderTransferPhase = "ready"
    /\ base64Data # << >> /\ chunks = << >>
    /\ chunkSizeInput # None /\ Val(chunkSizeInput) >= MIN_CHUNK_SIZE
    /\ currentChunkIndex = -1
    /\ ~startTransferBtnDisabled /\ ~fileInputDisabled

\* ------------------------------------------------------------------ C16
\* The files selected and what was made of them.
LoadedData ==
    << filesToSend, isSingleFileOriginal, originalSingleFilename,
       dataToSendBuffer, base64Data, dataToSendChecksum >>

\* A stop that keeps the data: the Stop button of the modal outside
\* post_final, or leaving the view while a transfer is under way.
KeepDataStop ==
    \/ senderTransferPhase # "post_final" /\ StopTransfer
    \/ /\ senderTransferPhase \notin { "idle", "ready" }
       /\ \E viewId \in { "sender", "receiver" } : ShowView(viewId)

\* A stop with full reset: Finish & Close, or the Stop button of the modal
\* in post_final.
FullResetStop ==
    \/ FinishTransfer
    \/ senderTransferPhase = "post_final" /\ StopTransfer

\* C16: a keep-data stop leaves the selected files, the archive buffer, the
\* encoded data, the checksum and the original-filename information as they
\* were and puts the sender in ready if an archive is loaded and in idle
\* otherwise; a full-reset stop clears all of them and puts it in idle.
C16_StopFrame ==
    /\ [][KeepDataStop =>
            /\ LoadedData' = LoadedData
            /\ senderTransferPhase' =
                  IF dataToSendBuffer # None THEN "ready" ELSE "idle"]_svars
    /\ [][FullResetStop =>
            /\ LoadedData' = << 0, FALSE, None, None, << >>, << >> >>
            /\ senderTransferPhase' = "idle"]_svars

\* C16 witness: after a keep-data stop of the transfer of one file the file,
\* its name, its archive, the encoded data and the checksum are still there,
\* and the sender is ready.
C16_Witness ==
    /\ senderTransferPhase = "ready"
    /\ qrOverlayHidden /\ timers = {}
    /\ currentChunkIndex = -1 /\ chunks = << >>
    /\ chunkSizeInput # None /\ Val(chunkSizeInput) >= MIN_CHUNK_SIZE
    /\ filesToSend = 1 /\ isSingleFileOriginal
    /\ originalSingleFilename = Some(<< "o", ".", "t", "x", "t" >>)
    /\ dataToSendBuffer = Some(ArchiveBytes(MaxBufferLen))
    /\ base64Data = arrayBufferToBase64(ArchiveBytes(MaxBufferLen))
    /\ dataToSendChecksum = calculateChecksum(ArchiveBytes(MaxBufferLen))

\* ------------------------------------------------------------------ C17
\* The capacity budget of the selected error-correction level, and whether
\* the serialized packet p is within it.
WithinBudget(p) ==
    payloadStringLength(p) <= QR_CAPACITY_ESTIMATES[errorCorrectionLevel]

\* Start Transfer is pressed, the chunks can be prepared, and the Handshake
\* to display first is larger than the budget.
StartWithOversizeHandshake ==
    \E manual \in BOOLEAN, fid \in MintedFids, qrOk \in BOOLEAN :
        /\ StartTransfer(manual, fid, qrOk)
        /\ filesToSend > 0 /\ dataToSendBuffer # None
        /\ prepareChunks(Sd).ok
        /\ payloadStringLength(
               handshakePayload([prepareChunks(Sd).s EXCEPT !.transferFileId = fid]))
             > QR_CAPACITY_ESTIMATES[errorCorrectionLevel]

\* C17: no packet is displayed whose serialized size exceeds the capacity
\* budget of the selected level, and a step that finds the packet to display
\* larger than the budget displays nothing and ends in the error phase.
C17_Original ==
    /\ [](\A i \in 1..Len(sent) : WithinBudget(sent[i]))
    /\ [][StartWithOversizeHandshake =>
            /\ sent' = << >>
            /\ senderTransferPhase' = "error"]_svars

\* ------------------------------------------------------------------ C18
\* The chunks in order, as one string.
RECURSIVE Concat(_)
Concat(list) == IF list = << >> THEN << >> ELSE Head(list) \o Concat(Tail(list))

\* C18: for every encoded stream S and effective size K > 0 the chunks
\* prepareChunks makes, concatenated in order, are S; every chunk is
\* non-empty and at most K long; there are ceil(len(S)/K) of them, and none
\* exactly when S is empty.
C18_SplitterCorrect ==
    (call # None /\ Val(call).fn = "prepareChunks" /\ result # None) =>
        LET S == Val(call).data
            K == Val(call).size
            made == Val(result)
        IN  /\ Concat(made) = S
            /\ \A i \in 1..Len(made) : made[i] # << >> /\ Len(made[i]) <= K
            /\ Len(made) = (Len(S) + K - 1) \div K
            /\ (Len(made) = 0) <=> (S = << >>)

\* A stream split into three chunks or more, the last one shorter.
C18_Witness ==
    /\ call # None /\ Val(call).fn = "prepareChunks" /\ result # None
    /\ Len(Val(result)) >= 3
    /\ Len(Val(result)[Len(Val(result))]) < Val(call).size

\* ------------------------------------------------------------------ C19
\* The maximal runs of consecutive numbers of a set, as pairs first, last.
MaximalRuns(set) ==
    { run \in set \X set :
        /\ run[1] <= run[2]
        /\ \A n \in run[1]..run[2] : n \in set
        /\ (run[1] - 1) \notin set
        /\ (run[2] + 1) \notin set }

\* The runs in ascending order, written out and separated by ", ".
RECURSIVE RunsText(_)
RunsText(runs) ==
    IF runs = {} THEN << >>
    ELSE LET first == CHOOSE r \in runs : \A q \in runs : r[1] <= q[1]
             text == IF first[1] = first[2] THEN toString10(first[1])
                     ELSE toString10(first[1]) \o << "-" >> \o toString10(first[2])
         IN  IF runs = { first } THEN text
             ELSE text \o << ",", " " >> \o RunsText(runs \ { first })

\* C19: formatMissingChunks returns "None" for the empty list, otherwise the
\* maximal runs of consecutive numbers of its input in ascending order,
\* separated by ", ", a single number written as itself and a longer run as
\* first-last; read back, the text denotes exactly the numbers of the input.
C19_FormatMissing ==
    (call # None /\ Val(call).fn = "formatMissingChunks" /\ result # None) =>
        LET missing == Val(call).missing
            text == Val(result)
        IN  /\ missing = << >> => text = << "N", "o", "n", "e" >>
            /\ missing # << >> =>
                   /\ text = RunsText(MaximalRuns(Members(missing)))
                   /\ parseChunkInput(text, MaxNumber)
                          = Some(SortedSeq(Members(missing)))
            /\ missing = << 1, 2, 3, 5, 7, 8 >> =>
                   text = << "1", "-", "3", ",", " ", "5", ",", " ", "7", "-", "8" >>
            /\ missing = << 4 >> => text = << "4" >>

\* The list 1, 2, 3, 5, 7, 8 has been formatted.
C19_Witness ==
    /\ call # None /\ Val(call).fn = "formatMissingChunks"
    /\ Val(call).missing = << 1, 2, 3, 5, 7, 8 >>
    /\ result = Some(<< "1", "-", "3", ",", " ", "5", ",", " ", "7", "-", "8" >>)

\* ------------------------------------------------------------------ C20
\* The sum of the bytes i..j of a buffer.
RECURSIVE SumBytes(_, _, _)
SumBytes(bytes, i, j) ==
    IF i > j THEN 0
    ELSE IF i = j THEN bytes[i]
    ELSE SumBytes(bytes, i, (i + j) \div 2) + SumBytes(bytes, ((i + j) \div 2) + 1, j)

\* The number four lower-case hexadecimal digits denote.
HexValue(digits) ==
    LET v(c) == (CHOOSE d \in 1..16 : HexDigits[d] = c) - 1
    IN  ((v(digits[1]) * 16 + v(digits[2])) * 16 + v(digits[3])) * 16 + v(digits[4])

\* C20: calculateChecksum of a byte sequence is the sum of its bytes modulo
\* 65536; the running sum is within 0..65535 after every byte; the result is
\* written as exactly four lower-case hexadecimal digits, "0000" for the
\* empty sequence; the checksum the sender stores for an archive is that
\* value, and the receiver's comparison accepts a Final that carries it for
\* the same bytes.
C20_Checksum ==
    (call # None /\ Val(call).fn = "calculateChecksum" /\ result # None) =>
        LET buffer == Val(call).buffer
            chk == Val(result)
        IN  /\ Len(chk) = 4
            /\ \A i \in 1..Len(chk) : \E d \in 1..16 : HexDigits[d] = chk[i]
            /\ HexValue(chk) = SumBytes(buffer, 1, Len(buffer)) % 65536
            /\ \A k \in 0..Len(buffer) :
                   checksumLoop(SubSeq(buffer, 1, k), 1, 0) \in 0..65535
            /\ buffer = << >> => chk = << "0", "0", "0", "0" >>
            /\ handleFileSelectResolved([Sd EXCEPT !.zipping = 1], buffer).dataToSendChecksum = chk
            /\ ~checksumMismatch(buffer,
                   Packet("f", PROTOCOL_VERSION, "A", 0, 0, None, 0, << >>, chk))

\* The checksum of a buffer whose bytes add up to more than 65535.
C20_Witness ==
    /\ call # None /\ Val(call).fn = "calculateChecksum" /\ result # None
    /\ SumBytes(Val(call).buffer, 1, Len(Val(call).buffer)) > 65535

\* ------------------------------------------------------------------ C21
\* Scanned strings that fail the structure validation of handleScanResult:
\* those of Malformed, and a packet whose fid or typ is not a string.
NotWellFormed ==
    LET p == Packet("d", PROTOCOL_VERSION, "A", 0, 0, None, 1, << "A", "Q" >>, << >>)
    IN  Malformed \cup { [p EXCEPT !.bad = { "fid" }], [p EXCEPT !.bad = { "typ" }] }

\* Data packets of the adopted session with a sequence number outside
\* 1..total or an empty slice, and those whose seq is not an integer or whose
\* dat is not a string.
InvalidData ==
    { p \in SessionData :
        p.seq \notin 1..Val(expectedTotalChunks) \/ p.dat = << >> }
    \cup { [p EXCEPT !.bad = { field }] :
             p \in { q \in SessionData : q.seq = 1 /\ q.dat # << >> },
             field \in { "seq", "dat" } }

\* C21: in every intake phase, handling a scanned string that is not a
\* well-formed packet, or a Data packet of the session whose sequence number
\* is not an integer in 1..total or whose slice is empty or not a string,
\* leaves the phase, the session metadata and the ChunkStore as they are,
\* starts no verification, shows no error and leaves the scanner as it is,
\* so that the receiver keeps accepting packets.
C21_MalformedDropped ==
    receiverState \in IntakeStates
        => \A p \in NotWellFormed \cup InvalidData :
               LET r == Deliver(St, p)
               IN  /\ SessionOf(r) = session
                   /\ NoVerificationIn(r)
                   /\ r.receiverStatus = receiverStatus
                   /\ r.isScanning = isScanning
                   /\ r.qrScanner = qrScanner

\* C21 witness: a string that is not a well-formed packet has been dropped
\* while the receiver waits for the missing chunk of two, and the scanner
\* still runs.
C21_Witness ==
    /\ receiverState = "waiting_missing"
    /\ expectedTotalChunks = Some(2)
    /\ receivedChunkCount = 1
    /\ receiverDebug = "Struct Err"
    /\ isScanning

\* ------------------------------------------------------------------ C22
\* The step removes an entry of the ChunkStore.
LosesEntries ==
    \E i \in DOMAIN receivedChunksMap : i \notin DOMAIN receivedChunksMap'

\* C22 as claimed: the Stop Scanning button leaves the ChunkStore and the
\* adopted session as they are, and a step in which the ChunkStore loses an
\* entry is an explicit reset (the Start Scanning button, the failure of the
\* camera to start, the deferred reset after a download) or the adoption of
\* a Handshake with a new fileId, never the handling of a Data packet, a
\* Final packet or a packet of another version.
C22_Original ==
    [][ /\ StopScan
           => UNCHANGED << expectedFileId, expectedTotalChunks,
                           expectedArchiveName, expectedDataSize,
                           expectedIsZip, expectedOriginalFilename,
                           receivedChunksMap, receivedChunkCount >>
        /\ LosesEntries
           => /\ \/ StartScan
                 \/ StartRejected
                 \/ DeferredReset
                 \/ \E h \in Handshakes :
                        /\ expectedFileId # Some(h.fid)
                        /\ expectedFileId' = Some(h.fid)
                        /\ Handles(h)
              /\ \A p \in DataPackets \cup FinalPackets \cup OtherVersion :
                     ~Handles(p)
      ]_vars

\* ------------------------------------------------------------------ C23
\* C23: in "waiting_handshake", handling a valid Handshake adopts its
\* fileId, total, size and names, leaves the ChunkStore empty and ends in
\* "receiving_data" if total > 0 and in "waiting_final" if total = 0;
\* handling a Data packet changes nothing, so that it does not enter the
\* ChunkStore.
C23_HandshakeAdopts ==
    receiverState = "waiting_handshake"
        => /\ \A h \in Handshakes :
                  LET r == Deliver(St, h)
                  IN  /\ r.expectedFileId = Some(h.fid)
                      /\ r.expectedTotalChunks = Some(h.tot)
                      /\ r.expectedDataSize = Some(h.siz)
                      /\ r.expectedArchiveName =
                             safeDecodeURIComponent(h.nam, Some(MULTI_FILE_ARCHIVE_NAME))
                      /\ r.expectedOriginalFilename = h.ofn
                      /\ Store(r) = << EmptyMap, 0 >>
                      /\ r.receiverState =
                             IF h.tot > 0 THEN "receiving_data" ELSE "waiting_final"
                      /\ NoVerificationIn(r)
           /\ \A d \in DataPackets : Deliver(St, d) = St

\* C23 witness: the Handshake of a two-chunk single-file session has been
\* adopted and no chunk is stored yet.
C23_Witness ==
    /\ receiverState = "receiving_data"
    /\ expectedFileId = Some("A")
    /\ expectedTotalChunks = Some(2)
    /\ expectedDataSize = Some(1)
    /\ expectedOriginalFilename = Some("o.txt")
    /\ receivedChunksMap = EmptyMap /\ receivedChunkCount = 0
    /\ receiverDebug = ""
    /\ isScanning

\* ------------------------------------------------------------------ C24
\* C24: in "receiving_data", "waiting_final" and "waiting_missing",
\* handling a Handshake, whether it repeats the adopted fileId or carries
\* another one, leaves the phase, the adopted fileId, total, size and names
\* and the ChunkStore as they are, and starts no verification.
C24_HandshakeIgnored ==
    receiverState \in { "receiving_data", "waiting_final", "waiting_missing" }
        => \A h \in Handshakes :
               LET r == Deliver(St, h)
               IN  /\ SessionOf(r) = session
                   /\ NoVerificationIn(r)
                   /\ r.isScanning = isScanning

\* C24 witness: a packet with another fileId has been ignored while the
\* receiver of session "A" waits for the missing chunk of two.
C24_Witness ==
    /\ receiverState = "waiting_missing"
    /\ expectedFileId = Some("A")
    /\ expectedTotalChunks = Some(2)
    /\ receivedChunkCount = 1
    /\ receiverDebug = "FID Err"

\* ------------------------------------------------------------------ C25
\* Final packets of the adopted session whose checksum is empty, or is
\* missing or not a string.
NoChecksumFinals ==
    LET finals == { p \in FinalPackets : Some(p.fid) = expectedFileId }
    IN  { p \in finals : p.chk = << >> }
        \cup { [p EXCEPT !.bad = { "chk" }] : p \in finals }

\* C25 as claimed: in an intake phase, handling a Final packet of the
\* adopted session whose checksum is missing, not a string or empty leaves
\* the phase, the session and the ChunkStore as they are, starts no
\* verification and leaves the scanner running.
C25_Original ==
    receiverState \in IntakeStates
        => \A p \in NoChecksumFinals :
               LET r == Deliver(St, p)
               IN  /\ SessionOf(r) = session
                   /\ NoVerificationIn(r)
                   /\ r.isScanning = isScanning

\* ------------------------------------------------------------------ C26
\* Handshakes that break a rule of the claim: the name is not a string, the
\* size or the total is not a number or is negative, the zip flag is not
\* true.
InvalidHandshakes ==
    LET h == Packet("h", PROTOCOL_VERSION, "A", 1, 1, None, 0, << >>, << >>)
    IN  { [h EXCEPT !.bad = { "nam" }], [h EXCEPT !.bad = { "siz" }],
          [h EXCEPT !.bad = { "tot" }], [h EXCEPT !.siz = -1],
          [h EXCEPT !.tot = -1], [h EXCEPT !.zip = FALSE] }

\* C26 as claimed: in "waiting_handshake", where Handshakes are adopted,
\* handling a Handshake whose name is not a string, whose size or total is
\* not a number >= 0 or whose zip flag is not true leaves the phase, the
\* session and the ChunkStore as they are.
C26_Original ==
    receiverState = "waiting_handshake"
        => \A h \in InvalidHandshakes :
               LET r == Deliver(St, h)
               IN  SessionOf(r) = session /\ NoVerificationIn(r)

\* ------------------------------------------------------------------ C27
\* A verification is in progress: a verifyAndDownload call that passed the
\* checks waits for the extraction of the archive.
VerificationInProgress == tasks # << >>

\* C27 as claimed: while a verification is in progress the receiver is in
\* no intake phase, and a packet the scanner delivers meanwhile is not
\* handled: it changes neither the phase nor the session, and starts no
\* second verification or download.
C27_Original ==
    VerificationInProgress
        => /\ receiverState \notin IntakeStates
           /\ (isScanning \/ lateDecode)
                  => \A p \in Packets : \A sink \in SinkFor(p) :
                         LET r == handleScanResult(
                                      [St EXCEPT !.lateDecode = FALSE], p, sink)
                         IN  /\ SessionOf(r) = session
                             /\ NoVerificationIn(r)

\* ------------------------------------------------------------------ C28
\* The callback that verifyAndDownload schedules with setTimeout(..., 100)
\* runs once its delay has passed.
LiveSpec == Spec /\ WF_vars(DeferredReset)

\* No session: the receiver is idle and holds nothing of a transfer.
SessionDestroyed ==
    /\ receiverState = "idle"
    /\ expectedFileId = None
    /\ expectedTotalChunks = None
    /\ expectedDataSize = None
    /\ receivedChunksMap = EmptyMap
    /\ receivedChunkCount = 0

\* The result r of a step is "complete" with one more reset scheduled.
CompleteWithReset(r) ==
    r.receiverState = "complete" /\ r.resetTimers = resetTimers + 1

CompleteThenReset ==
    /\ \A p \in FinalPackets : \A sink \in SinkFor(p) :
           (FinalOnCompleteStore(p) /\ Matches(p) /\ expectedOriginalFilename = None)
               => LET r == handleScanResult(St, p, sink)
                  IN  IF sink[1] THEN CompleteWithReset(r)
                      ELSE r.receiverState = "error" /\ r.resetTimers = resetTimers
    /\ \A i \in 1..Len(tasks), outcome \in ZipOutcomes, sink \in SinkOutcomes :
           LET r == finishExtraction(St, i, outcome, sink)
           IN  IF SinkAccepts(outcome, sink) THEN CompleteWithReset(r)
               ELSE r.receiverState = "error" /\ r.resetTimers = resetTimers
    /\ receiverState = "complete" => resetTimers > 0
    /\ resetTimers > 0
           => LET r == deferredReset([St EXCEPT !.resetTimers = @ - 1])
              IN  /\ r.receiverState = "idle"
                  /\ r.expectedFileId = None
                  /\ r.expectedTotalChunks = None
                  /\ r.expectedDataSize = None
                  /\ Store(r) = << EmptyMap, 0 >>

Restarted ==
    [startScan(St) EXCEPT !.isScanning = TRUE, !.startPending = FALSE,
                          !.lateDecode = FALSE]

\* C29 as claimed: when the scan was stopped during a transfer, the
\* restarted receiver is in "waiting_handshake" and still knows the fileId
\* and holds the chunks, and a Final packet of that fileId is handled as a
\* Final: it is checked for completeness against the chunks held, so that it
\* ends in "waiting_missing" if a chunk is missing and starts verification
\* if none is.
C29_Original ==
    ( /\ ~isScanning /\ ~startPending
      /\ receiverState \in { "receiving_data", "waiting_final", "waiting_missing" }
      /\ SessionAdopted )
        => /\ Restarted.receiverState = "waiting_handshake"
           /\ Restarted.expectedFileId = expectedFileId
           /\ Store(Restarted) = Store(St)
           /\ \A p \in FinalPackets : \A sink \in SinkFor(p) :
                  (Some(p.fid) = expectedFileId /\ p.chk # << >>)
                      => LET r == handleScanResult(Restarted, p, sink)
                         IN  IF AllChunksPresent
                             THEN r.receiverState \in { "complete", "error" }
                                      \/ Len(r.tasks) > Len(tasks)
                             ELSE r.receiverState = "waiting_missing"

\* ------------------------------------------------------------------ C30
\* The step shows a packet: the display record gets a new last element.
Emits == sent' # sent /\ sent' # << >>

\* The external signals that make the sender show a packet: the Next
\* button, and the Start Transfer, Send All Again and Send Specific buttons
\* used with the manual mode checked.
AdvanceSignal ==
    \/ \E qrOk \in BOOLEAN : NextChunk(qrOk)
    \/ \E fid \in MintedFids, qrOk \in BOOLEAN : StartTransfer(TRUE, fid, qrOk)
    \/ \E qrOk \in BOOLEAN : ResendAll(TRUE, qrOk)
    \/ \E l \in TypedLists, qrOk \in BOOLEAN :
           SendSpecific(TypedList(l), TRUE, qrOk)

\* C30 as claimed: in every reachable state of the sender a timer callback
\* is pending only if the current sequence is automatic and the phase is
\* "transferring", "sending_specific" or "final_qr_displayed", and at most
\* one is pending; while the sequence is manual none is pending, and a step
\* that shows a packet in a manual sequence is an external advance signal
\* and shows exactly one packet.
C30_Original ==
    /\ [] /\ timers # {}
                 => /\ ~isCurrentSequenceManual
                    /\ senderTransferPhase \in
                           { "transferring", "sending_specific", "final_qr_displayed" }
          /\ Cardinality(timers) <= 1
          /\ isCurrentSequenceManual => timers = {}
    /\ [][ (isCurrentSequenceManual' /\ Emits)
               => /\ \/ Len(sent') = 1
                     \/ /\ Len(sent') = Len(sent) + 1
                        /\ SubSeq(sent', 1, Len(sent)) = sent
                  /\ AdvanceSignal ]_svars

\* ------------------------------------------------------------------ C40
\* C40: in every intake phase, handling a Data packet of the session whose
\* sequence number is already stored with another slice leaves the
\* ChunkStore, receivedChunkCount and the phase as they are; and in every
\* step an entry that stays in the ChunkStore keeps its slice, so that a
\* stored slice changes only by the ChunkStore being cleared.
C40_FirstWriteWins ==
    /\ [](receiverState \in IntakeStates
            => \A p \in SessionData :
                   (/\ p.seq \in DOMAIN receivedChunksMap
                    /\ p.dat # << >>
                    /\ p.dat # receivedChunksMap[p.seq])
                       => LET r == Deliver(St, p)
                          IN  /\ Store(r) = Store(St)
                              /\ r.receiverState = receiverState
                              /\ NoVerificationIn(r))
    /\ [][ \A i \in DOMAIN receivedChunksMap :
               i \in DOMAIN receivedChunksMap'
                   => receivedChunksMap'[i] = receivedChunksMap[i] ]_vars

\* C40 witness: chunk 1 of two is stored and a Data packet with a sequence
\* number already stored has been handled.
C40_Witness ==
    /\ receiverState = "receiving_data"
    /\ expectedTotalChunks = Some(2)
    /\ receivedChunksMap = (1 :> << "A", "Q" >>)
    /\ receivedChunkCount = 1
    /\ receiverDebug = "Dup"

\* ------------------------------------------------------------------ C36
\* The three parts of the phase/session consistency of the receiver.
NoSessionBeforeHandshake ==
    receiverState \in {"idle", "waiting_handshake"}
        => /\ expectedFileId = None
           /\ expectedTotalChunks = None
           /\ DOMAIN receivedChunksMap = {}
           /\ receivedChunkCount = 0

SessionIncomplete ==
    receiverState \in {"receiving_data", "waiting_missing"}
        => /\ expectedFileId # None
           /\ expectedTotalChunks # None
           /\ Val(expectedTotalChunks) > 0
           /\ receivedChunkCount < Val(expectedTotalChunks)
           /\ receivedChunkCount = Cardinality(DOMAIN receivedChunksMap)

SessionAllStored ==
    receiverState = "waiting_final"
        => /\ expectedFileId # None
           /\ expectedTotalChunks # None
           /\ receivedChunkCount = Val(expectedTotalChunks)
           /\ DOMAIN receivedChunksMap = 1 .. Val(expectedTotalChunks)

\* C36: in every reachable receiver state, idle and waiting_handshake have
\* no adopted fileId and an empty ChunkStore; receiving_data and
\* waiting_missing have an adopted session with total > 0 and fewer than
\* total chunks counted; waiting_final has an adopted session with
\* receivedChunkCount = total.
C36_PhaseSessionConsistency ==
    /\ NoSessionBeforeHandshake
    /\ SessionIncomplete
    /\ SessionAllStored

\* C36 witness: after a Final that found chunk 2 missing, the receiver is
\* in waiting_missing with the session adopted and one chunk of two stored.
C36_Witness ==
    /\ receiverState = "waiting_missing"
    /\ expectedFileId = Some("A")
    /\ expectedTotalChunks = Some(2)
    /\ DOMAIN receivedChunksMap = {1}
    /\ receivedChunkCount = 1
    /\ isScanning

\* ------------------------------------------------------------------ C37
\* C37 as claimed: when the deferred reset scheduled after a download fires
\* after a new scan was started and a Handshake adopted (the phase is an
\* intake phase with a session), it leaves the phase, the adopted fileId and
\* the ChunkStore of the new session as they are.
C37_Original ==
    (resetTimers > 0 /\ receiverState \in IntakeStates /\ expectedFileId # None)
        => LET r == deferredReset([St EXCEPT !.resetTimers = @ - 1])
           IN  /\ r.receiverState = receiverState
               /\ r.expectedFileId = expectedFileId
               /\ Store(r) = Store(St)

\* ------------------------------------------------------------------ C39
\* The sender's state when a display handler is entered: by the Next button
\* (no callback is pending) or by the pending callback, which is consumed.
OnEntry == [Sd EXCEPT !.timers = {}]

\* The state s is the one a keep-data stop leaves, with the cursor not
\* advanced beyond the one on entry and nothing scheduled.
StoppedIn(s) ==
    /\ s.senderTransferPhase \in { "idle", "ready" }
    /\ s.qrOverlayHidden
    /\ s.sent = << >>
    /\ s.timers = {}
    /\ s.transferTimer = None
    /\ s.currentChunkIndex <= currentChunkIndex
    /\ s.nextChunkBtnDisabled

\* C39 as claimed: whenever one of the three display handlers is entered
\* and the encoder fails on the packet (the outcome differs from the one
\* with a working encoder), the handler leaves the sender stopped as by a
\* keep-data stop: cursor not advanced, phase neither final_qr_displayed
\* nor post_final, no callback scheduled.
C39_Original ==
    /\ (/\ senderTransferPhase = "transferring"
        /\ displayNextChunk(OnEntry, TRUE) # displayNextChunk(OnEntry, FALSE))
           => StoppedIn(displayNextChunk(OnEntry, FALSE))
    /\ (/\ senderTransferPhase = "sending_specific"
        /\ displaySpecificChunk(OnEntry, TRUE) # displaySpecificChunk(OnEntry, FALSE))
           => StoppedIn(displaySpecificChunk(OnEntry, FALSE))
    /\ (/\ \E t \in timers : t.cb = "displayFinalConfirmationQR"
        /\ displayFinalConfirmationQR(OnEntry, TRUE)
               # displayFinalConfirmationQR(OnEntry, FALSE))
           => StoppedIn(displayFinalConfirmationQR(OnEntry, FALSE))

\* ------------------------------------------------------------------ C32
\* C32 as claimed: when an archive of zero bytes is loaded (the encoded
\* payload is the empty string), chunk preparation succeeds with zero
\* chunks, and Start Transfer is accepted: the transfer runs with
\* totalSteps = 2 and its first packet is the Handshake with total = 0.
C32_Original ==
    (/\ filesToSend > 0
     /\ dataToSendBuffer = Some(<< >>)
     /\ qrOverlayHidden
     /\ chunkSizeInput # None
     /\ Val(chunkSizeInput) >= MIN_CHUNK_SIZE)
        => /\ prepareChunks(Sd).ok
           /\ prepareChunks(Sd).s.totalDataChunks = 0
           /\ \A manual \in BOOLEAN, fid \in MintedFids :
                  LET s == startTransfer(Sd, manual, fid, TRUE)
                  IN  /\ s.senderTransferPhase = "transferring"
                      /\ s.totalStepsInCurrentSequence = 2
                      /\ Len(s.sent) = 1
                      /\ s.sent[1].typ = "h"
                      /\ s.sent[1].tot = 0

\* ------------------------------------------------------------------ C38
\* C38: for every non-empty set M of sequence numbers within 1..N, the text
\* formatMissingChunks gives for M, parsed by parseChunkInput with the
\* limit N, is the ascending list of exactly the numbers of M; and the text
\* given for the empty set ("None") is rejected by the parser (null).
C38_RoundTrip ==
    (call # None /\ Val(call).fn = "parseChunkInput" /\ result # None) =>
        LET missing == Val(call).missing
            parsed == Val(result)
        IN  /\ missing # << >> =>
                   /\ parsed # None
                   /\ Members(Val(parsed)) = Members(missing)
                   /\ Ascending(Val(parsed))
                   /\ Len(Val(parsed)) = Cardinality(Members(missing))
            /\ missing = << >> => parsed = None

\* C38 witness: the list 96, 98, 99, 100, 103 of a 103-chunk archive, shown
\* as "96, 98-100, 103", has been parsed back.
C38_Witness ==
    /\ call # None
    /\ Val(call).fn = "parseChunkInput"
    /\ Val(call).missing = << 96, 98, 99, 100, 103 >>
    /\ formatMissingChunks(Val(call).missing)
           = << "9","6",","," ","9","8","-","1","0","0",","," ","1","0","3" >>
    /\ result = Some(Some(<< 96, 98, 99, 100, 103 >>))

\* ------------------------------------------------------------------ C35
\* The error correction levels from the weakest to the strongest.
LevelRank == [level \in DOMAIN QR_CAPACITY_ESTIMATES |->
                 CASE level = "L" -> 1 [] level = "M" -> 2
                   [] level = "Q" -> 3 [] OTHER -> 4]

\* The capacity-derived maximum of a data slice for call c at a level.
MaxDataPayload(c, level) ==
    QR_CAPACITY_ESTIMATES[level]
        - estimateMetadataSize("d", IF c.fid # "" THEN c.fid ELSE "fid_placeholder")
        - QR_CHUNK_SIZE_BUFFER

\* The least of two numbers.
Least(a, b) == IF a < b THEN a ELSE b

\* The size of the chunks of a chunk list: that of the first one, 0 if none.
ChunkSize(list) == IF list = << >> THEN 0 ELSE Len(list[1])

\* C35: for each of the four levels and each target typed, prepareChunks
\* succeeds iff the target is a number not below MIN_CHUNK_SIZE and the
\* capacity-derived maximum is positive; then every chunk but the last has
\* min(target, capacity(level) - overhead - buffer) characters, which is at
\* least 1, the last has no more, and the start is accepted; otherwise no
\* chunks are set and Start Transfer leaves the sender as it was; and a
\* stronger level gives neither a larger capacity nor larger chunks.
C35_CapacityPlanning ==
    (call # None /\ Val(call).fn = "prepareChunks.size" /\ result # None) =>
        LET c == Val(call)
            r == Val(result)
            budget == MaxDataPayload(c, c.level)
            valid == c.target # None /\ Val(c.target) >= MIN_CHUNK_SIZE /\ budget > 0
            effective == Least(Val(c.target), budget)
        IN  /\ valid =>
                   /\ r.ok
                   /\ effective >= 1
                   /\ r.chunks # << >>
                   /\ \A i \in 1..(Len(r.chunks) - 1) : Len(r.chunks[i]) = effective
                   /\ Len(r.chunks[Len(r.chunks)]) \in 1..effective
                   /\ r.phase = "transferring"
            /\ ~valid =>
                   /\ ~r.ok
                   /\ r.chunks = << >>
                   /\ r.phase = "ready"
            /\ \A stronger \in DOMAIN QR_CAPACITY_ESTIMATES :
                   LevelRank[stronger] >= LevelRank[c.level] =>
                       /\ getQrCapacityEstimate(stronger) <= getQrCapacityEstimate(c.level)
                       /\ MaxDataPayload(c, stronger) <= budget
                       /\ ChunkSize(prepareChunks(
                              Loaded([c EXCEPT !.level = stronger])).s.chunks)
                              <= ChunkSize(r.chunks)

\* C35 witness: at level L with a minted identifier the target 1850 is cut
\* down to the capacity-derived maximum 1763.
C35_Witness ==
    /\ call # None
    /\ Val(call).fn = "prepareChunks.size"
    /\ Val(call).level = "L"
    /\ Val(call).fid \in MintedFids
    /\ Val(call).target = Some(1850)
    /\ result # None
    /\ Val(result).ok
    /\ Len(Val(result).chunks) = 2
    /\ Len(Val(result).chunks[1]) = 1763
    /\ Len(Val(result).chunks[2]) = 237

\* ------------------------------------------------------------------ C31
\* The sender with every scheduled callback eventually run.
SenderLiveSpec ==
    SenderSpec /\ WF_svars(\E t \in timers, qrOk \in BOOLEAN : TimerFires(t, qrOk))

\* An automatic sequence is under way in the modal.
ActiveAuto ==
    /\ senderTransferPhase \in ActivePhases
    /\ ~isCurrentSequenceManual
    /\ ~qrOverlayHidden

\* C31 as claimed: an automatic sequence that is under way leads to
\* post_final, unless a stop or a failed emission has closed the modal.
C31_Original ==
    ActiveAuto ~> (senderTransferPhase = "post_final" \/ qrOverlayHidden)

\* ------------------------------------------------------------------ C33
\* The next packet of the automatic main sequence is the Final.
FinalDue ==
    /\ senderTransferPhase = "transferring"
    /\ currentChunkIndex = totalDataChunks
    /\ \E t \in timers : t.cb = "displayNextChunk"

\* The channel has handed the receiver, scanning in waiting_handshake, the
\* Handshake of the sequence and every packet shown since.
Lossless == channel.synced /\ channel.lost = {} /\ isScanning

\* What the receiver holds is what the sender sends: identifier, total,
\* size, and the encoded stream joined from the stored chunks.
SameStream ==
    /\ expectedFileId = Some(transferFileId)
    /\ expectedTotalChunks = Some(totalDataChunks)
    /\ expectedDataSize = Some(Len(Val(dataToSendBuffer)))
    /\ AllChunksPresent
    /\ joinChunks(receivedChunksMap, 1, totalDataChunks) = base64Data
    /\ Reconstruction = Val(dataToSendBuffer)

\* The result r of handling the Final is "complete", or the extraction of
\* the single file has begun.
CompletesIn(r) ==
    r.receiverState = "complete" \/ Len(r.tasks) > Len(tasks)

\* C33 as claimed, with a browser that accepts the download: when the Final
\* of a main sequence is due and the channel has delivered the Handshake to
\* a receiver in waiting_handshake and every packet since, the receiver
\* holds the sender's stream and handling the Final completes the reception.
C33_Original ==
    (FinalDue /\ Lossless)
        => /\ SameStream
           /\ CompletesIn(handleScanResult(St, finalPayload(Sd), << TRUE, TRUE >>))

\* The receiver's session is the sender's and nothing of an earlier session
\* is pending.
Alive ==
    /\ receiverState \in { "receiving_data", "waiting_final", "waiting_missing" }
    /\ expectedFileId = Some(transferFileId)
    /\ resetTimers = 0 /\ tasks = << >>

\* What holds of C33: while the receiver's session is alive, the Final of a
\* losslessly delivered main sequence finds the sender's stream stored and
\* completes the reception.
LiveSessionRefinement ==
    (FinalDue /\ Lossless /\ Alive)
        => /\ SameStream
           /\ CompletesIn(handleScanResult(St, finalPayload(Sd), << TRUE, TRUE >>))

\* ------------------------------------------------------------------ C34
\* The Final that closes a sequence is on display and was taken, and the
\* channel dropped a non-empty set of the Data packets shown.
FinalTakenWithLoss ==
    /\ senderTransferPhase \in { "final_qr_displayed", "post_final" }
    /\ sent # << >> /\ sent[Len(sent)].typ = "f"
    /\ channel.synced /\ isScanning
    /\ channel.lost # {} /\ 0 \notin channel.lost

\* The Final of a Send Specific sequence is due.
SpecificFinalDue ==
    /\ senderTransferPhase = "sending_specific"
    /\ specificChunkSendIndex >= Len(specificChunksToSend)
    /\ \E t \in timers : t.cb = "displayFinalConfirmationQR"

\* C34 as claimed: after the Handshake was delivered and the channel dropped
\* the set M of Data packets, the Final leaves the receiver in
\* waiting_missing reporting M; and when Send Specific of that list has
\* shown its Data packets and they were delivered, handling the re-emitted
\* Final completes the reception, no Handshake having been shown again.
C34_Original ==
    /\ FinalTakenWithLoss
           => receiverState = "waiting_missing" /\ MissingChunks(St) = channel.lost
    /\ (SpecificFinalDue /\ Lossless)
           => CompletesIn(handleScanResult(St, finalPayload(Sd), << TRUE, TRUE >>))

\* What holds of C34: while the receiver's session is alive, the Final
\* reports exactly the dropped Data packets, and the Final of the Send
\* Specific sequence that re-delivered them completes the reception.
LiveSessionRecovery ==
    /\ (FinalTakenWithLoss /\ Alive)
           => receiverState = "waiting_missing" /\ MissingChunks(St) = channel.lost
    /\ (SpecificFinalDue /\ Lossless /\ Alive)
           => CompletesIn(handleScanResult(St, finalPayload(Sd), << TRUE, TRUE >>))

====
